---- MODULE Spec2Model ----
(***************************************************************************)
(* The version lifecycle of the prompt manager: the request handlers of    *)
(* routes/prompts.py and routes/versions.py over the tables of models.py.  *)
(*                                                                         *)
(* The store is the relational database the handlers are written for: a    *)
(* READ COMMITTED store with row locks.  SELECT ... FOR UPDATE, UPDATE and  *)
(* DELETE take the lock of every row they touch and keep it until the       *)
(* transaction commits or rolls back; a statement sees the rows committed   *)
(* when it starts plus the writes of its own transaction; a statement that  *)
(* finds a row locked waits; a cycle of waiting transactions is broken by   *)
(* the store, which raises an error in one of them.                         *)
(*                                                                         *)
(* Each handler is a sequence of steps, one per SQL statement it issues.    *)
(* Spec runs the handlers one at a time (no two requests overlap);          *)
(* ConcSpec runs one request per handler thread with the steps interleaved. *)
(*                                                                         *)
(* The scoring engine of ai_engine.py is a set of operators over texts, and *)
(* the handlers of routes/evaluation.py store its scores: EvalSpec runs     *)
(* them with the deleting handlers, one request at a time, and ScoreSpec    *)
(* applies the engine to a bounded set of texts and hints.                  *)
(***************************************************************************)
EXTENDS Integers, Sequences, FiniteSets, TLC

\* ------------------------------------------------------------------ bounds
MaxPid == 2          \* prompt ids handed out
MaxVid == 3          \* version ids handed out
NProcs == 2          \* request handlers running at once
MaxEid == 3          \* evaluation ids handed out
MaxFrags == 3        \* fragments a scored text is put together from
MaxWords == 700      \* longest text whose length is scored, in words

Procs == 1..NProcs
Users == {1, 2}

\* Texts are sequences of characters; str.strip() removes these from both ends.
Whitespace == {" ", "\n"}
Inputs == { <<"a">>, <<" ", "a">>, <<"b", "\n">>, <<"a", "b">>, <<" ">> }

NoRow == [id |-> 0, prompt |-> 0, number |-> 0, text |-> <<>>, current |-> FALSE]
NoOp == [kind |-> "none", caller |-> 0, pid |-> 0, vid |-> 0, text |-> <<>>]
NoRes == [code |-> 0, newv |-> 0]
NoLoc == [version |-> NoRow, current |-> 0, next |-> 0, insert |-> FALSE,
          targets |-> {}, upd |-> {}, del |-> {}]
NoEval == [id |-> 0, version |-> 0, clarity_score |-> 0, relevance_score |-> 0,
           length_score |-> 0, final_score |-> 0, evaluated_at |-> 0]
NoRec == [best |-> NoEval, alternatives |-> <<>>]
NoArg == [fn |-> "none", text |-> <<>>, task_type |-> <<>>, domain |-> <<>>]
NoOut == [clarity_score |-> -1, relevance_score |-> -1, length_score |-> -1,
          final_score |-> -1, relevance_notes |-> <<>>]

VARIABLES
    prompts,    \* committed rows of table prompts: [id, user]
    versions,   \* committed rows of table prompt_versions
    nextPid,    \* next primary key of prompts
    nextVid,    \* next primary key of prompt_versions
    locks,      \* row locks on prompt_versions: <<version id, holder>>
    created,    \* history: every version row ever inserted, [id, prompt, number]
    evaluations,\* committed rows of table prompt_evaluations
    nextEid,    \* next primary key of prompt_evaluations
    now,        \* the clock: the latest evaluated_at handed out
    pc,         \* per handler thread: the statement it is about to issue
    op,         \* per handler thread: the request it serves
    loc,        \* per handler thread: its locals and its session's pending writes
    res,        \* per handler thread: the response of its last request
    pre,        \* per handler thread: the committed versions when its request arrived
    preEval,    \* per handler thread: the committed evaluations at that time
    rec,        \* per handler thread: the recommendation in its response
    arg,        \* the scoring engine's call: function, text and hints
    out         \* what the engine returned for arg: the scores, and the notes of
                \* details.relevance

evals == <<evaluations, nextEid, now>>
engine == <<arg, out>>
store == <<prompts, versions, nextPid, nextVid, created, evals>>
vars == <<prompts, versions, nextPid, nextVid, locks, created, evaluations, nextEid, now,
          pc, op, loc, res, pre, preEval, rec, arg, out>>

\* ------------------------------------------------------------ pure helpers
RECURSIVE LStrip(_)
LStrip(s) == IF s # <<>> /\ Head(s) \in Whitespace THEN LStrip(Tail(s)) ELSE s

RECURSIVE RStrip(_)
RStrip(s) ==
    IF s # <<>> /\ s[Len(s)] \in Whitespace THEN RStrip(SubSeq(s, 1, Len(s) - 1)) ELSE s

Strip(s) == RStrip(LStrip(s))

MaxOf(S) == CHOOSE x \in S : \A y \in S : y <= x
MinOf(S) == CHOOSE x \in S : \A y \in S : x <= y

\* ------------------------------------------------- ai_engine.PromptEvaluator
\* Scores are kept in thousandths of a point: every score the engine computes
\* is a whole number of them, and round(x, 2) is a rounding to tens.
Pts(n) == n * 1000

UpperCase == <<"A", "B", "C", "D", "E", "F", "G", "H", "I", "J", "K", "L", "M",
               "N", "O", "P", "Q", "R", "S", "T", "U", "V", "W", "X", "Y", "Z">>
LowerCase == <<"a", "b", "c", "d", "e", "f", "g", "h", "i", "j", "k", "l", "m",
               "n", "o", "p", "q", "r", "s", "t", "u", "v", "w", "x", "y", "z">>
Digits == {"0", "1", "2", "3", "4", "5", "6", "7", "8", "9"}

IsUpper(c) == \E i \in 1..Len(UpperCase) : UpperCase[i] = c

\* Mutant: upper-case letters are kept.
KeepCase(c) == c

\* str.lower
ToLower(c) ==
    IF IsUpper(c) THEN LowerCase[CHOOSE i \in 1..Len(UpperCase) : UpperCase[i] = c] ELSE c

Lower(s) == [i \in 1..Len(s) |-> ToLower(s[i])]

\* keyword in prompt_lower
Contains(s, k) ==
    \E i \in 1..(Len(s) - Len(k) + 1) : \A j \in 1..Len(k) : s[i + j - 1] = k[j]

\* len(prompt_text.split()): the maximal runs of non-whitespace characters
WordCount(s) ==
    Cardinality({i \in 1..Len(s) : s[i] \notin Whitespace /\ (i = 1 \/ s[i - 1] \in Whitespace)})

Max2(a, b) == IF a >= b THEN a ELSE b
Min2(a, b) == IF a <= b THEN a ELSE b

\* Mutant: the score is clamped from below only.
ClampBelowOnly(score) == Max2(0, score)

\* max(0, min(100, score))
Clamp(score) == Max2(0, Min2(Pts(100), score))

\* round(x, 2) of a score x >= 0
Round2(x) == ((x + 5) \div 10) * 10

\* ai_engine.py 24-28
VAGUE_KEYWORDS ==
    { <<"s", "o", "m", "e", "t", "h", "i", "n", "g">>, <<"s", "t", "u", "f", "f">>,
      <<"t", "h", "i", "n", "g">>, <<"t", "h", "i", "n", "g", "s">>,
      <<"m", "a", "y", "b", "e">>, <<"e", "t", "c">>,
      <<"w", "h", "a", "t", "e", "v", "e", "r">>, <<"s", "o", "m", "e", "h", "o", "w">>,
      <<"s", "o", "m", "e", "w", "h", "e", "r", "e">>,
      <<"a", "n", "y", "t", "h", "i", "n", "g">>,
      <<"e", "v", "e", "r", "y", "t", "h", "i", "n", "g">>,
      <<"n", "o", "t", "h", "i", "n", "g">>, <<"k", "i", "n", "d", " ", "o", "f">>,
      <<"s", "o", "r", "t", " ", "o", "f">>, <<"l", "i", "k", "e">>,
      <<"b", "a", "s", "i", "c", "a", "l", "l", "y">>,
      <<"a", "c", "t", "u", "a", "l", "l", "y">> }

\* ai_engine.py 31-36
CLEAR_ACTION_WORDS ==
    { <<"c", "r", "e", "a", "t", "e">>, <<"g", "e", "n", "e", "r", "a", "t", "e">>,
      <<"w", "r", "i", "t", "e">>, <<"a", "n", "a", "l", "y", "z", "e">>,
      <<"s", "u", "m", "m", "a", "r", "i", "z", "e">>, <<"e", "x", "p", "l", "a", "i", "n">>,
      <<"l", "i", "s", "t">>, <<"d", "e", "s", "c", "r", "i", "b", "e">>,
      <<"c", "o", "m", "p", "a", "r", "e">>, <<"e", "v", "a", "l", "u", "a", "t", "e">>,
      <<"i", "m", "p", "l", "e", "m", "e", "n", "t">>, <<"d", "e", "s", "i", "g", "n">>,
      <<"c", "a", "l", "c", "u", "l", "a", "t", "e">>, <<"f", "i", "n", "d">>,
      <<"s", "e", "a", "r", "c", "h">>, <<"e", "x", "t", "r", "a", "c", "t">>,
      <<"c", "o", "n", "v", "e", "r", "t">>, <<"t", "r", "a", "n", "s", "l", "a", "t", "e">>,
      <<"r", "e", "v", "i", "e", "w">>, <<"o", "p", "t", "i", "m", "i", "z", "e">>,
      <<"d", "e", "b", "u", "g">>, <<"t", "e", "s", "t">>,
      <<"v", "a", "l", "i", "d", "a", "t", "e">>, <<"f", "o", "r", "m", "a", "t">> }

\* ai_engine.py 39-70: <<domain, its keywords in the order of the list>>
DOMAIN_KEYWORDS == {
    <<<<"h", "e", "a", "l", "t", "h", "c", "a", "r", "e">>,
      << <<"p", "a", "t", "i", "e", "n", "t">>, <<"d", "i", "a", "g", "n", "o", "s", "i", "s">>,
         <<"t", "r", "e", "a", "t", "m", "e", "n", "t">>, <<"m", "e", "d", "i", "c", "a", "l">>,
         <<"h", "e", "a", "l", "t", "h">>, <<"s", "y", "m", "p", "t", "o", "m">>,
         <<"d", "i", "s", "e", "a", "s", "e">>,
         <<"m", "e", "d", "i", "c", "a", "t", "i", "o", "n">>,
         <<"c", "l", "i", "n", "i", "c", "a", "l">>, <<"d", "o", "c", "t", "o", "r">>,
         <<"h", "o", "s", "p", "i", "t", "a", "l">>, <<"t", "h", "e", "r", "a", "p", "y">>,
         <<"p", "r", "e", "s", "c", "r", "i", "p", "t", "i", "o", "n">>,
         <<"n", "u", "r", "s", "i", "n", "g">>, <<"s", "u", "r", "g", "e", "r", "y">> >>>>,
    <<<<"c", "o", "d", "i", "n", "g">>,
      << <<"f", "u", "n", "c", "t", "i", "o", "n">>, <<"c", "o", "d", "e">>,
         <<"d", "e", "b", "u", "g">>, <<"i", "m", "p", "l", "e", "m", "e", "n", "t">>,
         <<"a", "p", "i">>, <<"c", "l", "a", "s", "s">>, <<"m", "e", "t", "h", "o", "d">>,
         <<"v", "a", "r", "i", "a", "b", "l", "e">>,
         <<"a", "l", "g", "o", "r", "i", "t", "h", "m">>,
         <<"d", "a", "t", "a", "b", "a", "s", "e">>, <<"s", "e", "r", "v", "e", "r">>,
         <<"f", "r", "o", "n", "t", "e", "n", "d">>, <<"b", "a", "c", "k", "e", "n", "d">>,
         <<"p", "y", "t", "h", "o", "n">>, <<"j", "a", "v", "a", "s", "c", "r", "i", "p", "t">>,
         <<"s", "q", "l">> >>>>,
    <<<<"e", "d", "u", "c", "a", "t", "i", "o", "n">>,
      << <<"t", "e", "a", "c", "h">>, <<"e", "x", "p", "l", "a", "i", "n">>,
         <<"l", "e", "a", "r", "n">>, <<"s", "t", "u", "d", "e", "n", "t">>,
         <<"l", "e", "s", "s", "o", "n">>, <<"c", "o", "u", "r", "s", "e">>,
         <<"c", "u", "r", "r", "i", "c", "u", "l", "u", "m">>,
         <<"a", "s", "s", "i", "g", "n", "m", "e", "n", "t">>, <<"g", "r", "a", "d", "e">>,
         <<"e", "x", "a", "m">>, <<"t", "u", "t", "o", "r", "i", "a", "l">>,
         <<"c", "o", "n", "c", "e", "p", "t">>, <<"t", "h", "e", "o", "r", "y">>,
         <<"p", "r", "a", "c", "t", "i", "c", "e">>, <<"e", "x", "e", "r", "c", "i", "s", "e">>,
         <<"q", "u", "i", "z">> >>>>,
    <<<<"b", "u", "s", "i", "n", "e", "s", "s">>,
      << <<"r", "e", "v", "e", "n", "u", "e">>, <<"p", "r", "o", "f", "i", "t">>,
         <<"c", "u", "s", "t", "o", "m", "e", "r">>, <<"m", "a", "r", "k", "e", "t">>,
         <<"s", "t", "r", "a", "t", "e", "g", "y">>, <<"s", "a", "l", "e", "s">>,
         <<"p", "r", "o", "d", "u", "c", "t">>, <<"s", "e", "r", "v", "i", "c", "e">>,
         <<"g", "r", "o", "w", "t", "h">>, <<"i", "n", "v", "e", "s", "t", "m", "e", "n", "t">>,
         <<"r", "o", "i">>, <<"k", "p", "i">>, <<"a", "n", "a", "l", "y", "t", "i", "c", "s">>,
         <<"r", "e", "p", "o", "r", "t">>,
         <<"p", "r", "e", "s", "e", "n", "t", "a", "t", "i", "o", "n">> >>>>,
    <<<<"c", "r", "e", "a", "t", "i", "v", "e">>,
      << <<"s", "t", "o", "r", "y">>, <<"p", "o", "e", "m">>,
         <<"c", "h", "a", "r", "a", "c", "t", "e", "r">>, <<"p", "l", "o", "t">>,
         <<"n", "a", "r", "r", "a", "t", "i", "v", "e">>, <<"f", "i", "c", "t", "i", "o", "n">>,
         <<"d", "i", "a", "l", "o", "g", "u", "e">>, <<"s", "c", "e", "n", "e">>,
         <<"i", "m", "a", "g", "i", "n", "a", "t", "i", "o", "n">>,
         <<"c", "r", "e", "a", "t", "i", "v", "e">>, <<"a", "r", "t", "i", "s", "t", "i", "c">>,
         <<"s", "t", "y", "l", "e">>, <<"v", "o", "i", "c", "e">>, <<"t", "h", "e", "m", "e">>,
         <<"m", "e", "t", "a", "p", "h", "o", "r">> >>>>,
    <<<<"l", "e", "g", "a", "l">>,
      << <<"c", "o", "n", "t", "r", "a", "c", "t">>,
         <<"a", "g", "r", "e", "e", "m", "e", "n", "t">>, <<"c", "l", "a", "u", "s", "e">>,
         <<"t", "e", "r", "m", "s">>, <<"l", "e", "g", "a", "l">>,
         <<"c", "o", "m", "p", "l", "i", "a", "n", "c", "e">>,
         <<"r", "e", "g", "u", "l", "a", "t", "i", "o", "n">>, <<"l", "a", "w">>,
         <<"c", "o", "u", "r", "t">>, <<"l", "i", "t", "i", "g", "a", "t", "i", "o", "n">>,
         <<"p", "o", "l", "i", "c", "y">>, <<"l", "i", "a", "b", "i", "l", "i", "t", "y">>,
         <<"r", "i", "g", "h", "t", "s">>, <<"o", "b", "l", "i", "g", "a", "t", "i", "o", "n">>,
         <<"s", "t", "a", "t", "u", "t", "e">> >>>> }

\* ai_engine.py 73-98: <<task type, its indicators in the order of the list>>
TASK_INDICATORS == {
    <<<<"g", "e", "n", "e", "r", "a", "t", "i", "o", "n">>,
      << <<"c", "r", "e", "a", "t", "e">>, <<"g", "e", "n", "e", "r", "a", "t", "e">>,
         <<"w", "r", "i", "t", "e">>, <<"p", "r", "o", "d", "u", "c", "e">>,
         <<"m", "a", "k", "e">>, <<"b", "u", "i", "l", "d">>,
         <<"c", "o", "m", "p", "o", "s", "e">>, <<"d", "r", "a", "f", "t">>,
         <<"c", "o", "n", "s", "t", "r", "u", "c", "t">>, <<"d", "e", "v", "e", "l", "o", "p">>,
         <<"d", "e", "s", "i", "g", "n">> >>>>,
    <<<<"a", "n", "a", "l", "y", "s", "i", "s">>,
      << <<"a", "n", "a", "l", "y", "z", "e">>, <<"e", "v", "a", "l", "u", "a", "t", "e">>,
         <<"a", "s", "s", "e", "s", "s">>, <<"r", "e", "v", "i", "e", "w">>,
         <<"e", "x", "a", "m", "i", "n", "e">>,
         <<"i", "n", "v", "e", "s", "t", "i", "g", "a", "t", "e">>, <<"s", "t", "u", "d", "y">>,
         <<"i", "n", "s", "p", "e", "c", "t">>, <<"c", "r", "i", "t", "i", "q", "u", "e">>,
         <<"a", "u", "d", "i", "t">> >>>>,
    <<<<"s", "u", "m", "m", "a", "r", "i", "z", "a", "t", "i", "o", "n">>,
      << <<"s", "u", "m", "m", "a", "r", "i", "z", "e">>,
         <<"c", "o", "n", "d", "e", "n", "s", "e">>, <<"s", "h", "o", "r", "t", "e", "n">>,
         <<"b", "r", "i", "e", "f">>, <<"s", "y", "n", "o", "p", "s", "i", "s">>,
         <<"o", "v", "e", "r", "v", "i", "e", "w">>, <<"a", "b", "s", "t", "r", "a", "c", "t">>,
         <<"d", "i", "g", "e", "s", "t">>, <<"r", "e", "c", "a", "p">>,
         <<"o", "u", "t", "l", "i", "n", "e">> >>>>,
    <<<<"t", "r", "a", "n", "s", "l", "a", "t", "i", "o", "n">>,
      << <<"t", "r", "a", "n", "s", "l", "a", "t", "e">>, <<"c", "o", "n", "v", "e", "r", "t">>,
         <<"t", "r", "a", "n", "s", "f", "o", "r", "m">>, <<"a", "d", "a", "p", "t">>,
         <<"l", "o", "c", "a", "l", "i", "z", "e">>,
         <<"i", "n", "t", "e", "r", "p", "r", "e", "t">>, <<"r", "e", "n", "d", "e", "r">>,
         <<"t", "r", "a", "n", "s", "p", "o", "s", "e">> >>>>,
    <<<<"c", "l", "a", "s", "s", "i", "f", "i", "c", "a", "t", "i", "o", "n">>,
      << <<"c", "l", "a", "s", "s", "i", "f", "y">>,
         <<"c", "a", "t", "e", "g", "o", "r", "i", "z", "e">>, <<"s", "o", "r", "t">>,
         <<"o", "r", "g", "a", "n", "i", "z", "e">>, <<"g", "r", "o", "u", "p">>,
         <<"l", "a", "b", "e", "l">>, <<"t", "a", "g">>,
         <<"i", "d", "e", "n", "t", "i", "f", "y">>,
         <<"d", "i", "s", "t", "i", "n", "g", "u", "i", "s", "h">> >>>>,
    <<<<"e", "x", "t", "r", "a", "c", "t", "i", "o", "n">>,
      << <<"e", "x", "t", "r", "a", "c", "t">>, <<"f", "i", "n", "d">>,
         <<"l", "o", "c", "a", "t", "e">>, <<"i", "d", "e", "n", "t", "i", "f", "y">>,
         <<"r", "e", "t", "r", "i", "e", "v", "e">>, <<"p", "u", "l", "l">>, <<"g", "e", "t">>,
         <<"f", "e", "t", "c", "h">>, <<"o", "b", "t", "a", "i", "n">>,
         <<"g", "a", "t", "h", "e", "r">> >>>> }

\* ai_engine.py 341
context_words ==
    { <<"f", "o", "r">>, <<"a", "b", "o", "u", "t">>,
      <<"r", "e", "g", "a", "r", "d", "i", "n", "g">>,
      <<"c", "o", "n", "c", "e", "r", "n", "i", "n", "g">>,
      <<"r", "e", "l", "a", "t", "e", "d", " ", "t", "o">> }

\* ai_engine.py 347
format_words ==
    { <<"j", "s", "o", "n">>, <<"l", "i", "s", "t">>, <<"t", "a", "b", "l", "e">>,
      <<"b", "u", "l", "l", "e", "t">>, <<"p", "a", "r", "a", "g", "r", "a", "p", "h">>,
      <<"c", "o", "d", "e">>, <<"m", "a", "r", "k", "d", "o", "w", "n">> }
\* ai_engine.py 101-105, in tenths
DEFAULT_WEIGHTS == [clarity |-> 4, relevance |-> 4, length |-> 2]

\* ai_engine.py 108-111
MIN_WORDS == 5
OPTIMAL_MIN_WORDS == 15
OPTIMAL_MAX_WORDS == 150
MAX_WORDS == 300

\* The keywords of list words found in the lowered text.
Found(words, prompt_lower) == {k \in words : Contains(prompt_lower, k)}

\* The bullet character U+2022, written by its code point.
Bullet == "U+2022"

\* re.search(r'(\d+\.|<bullet>|-)\s', prompt_text)
HasList(s) ==
    \E i \in 1..(Len(s) - 1) :
        /\ s[i + 1] \in Whitespace
        /\ \/ s[i] \in {Bullet, "-"}
           \/ s[i] = "." /\ i > 1 /\ s[i - 1] \in Digits

\* re.search(r'\d+', prompt_text)
HasDigit(s) == \E i \in 1..Len(s) : s[i] \in Digits

\* caps_ratio > 0.5, caps_ratio = (number of upper-case characters) / max(len, 1)
MostlyCaps(s) == 2 * Cardinality({i \in 1..Len(s) : IsUpper(s[i])}) > Max2(Len(s), 1)

\* _calculate_clarity_score, lines 238-283
CalculateClarityScore(prompt_text) ==
    LET prompt_lower == Lower(prompt_text)
        vague_found == Found(VAGUE_KEYWORDS, prompt_lower)
        action_found == Found(CLEAR_ACTION_WORDS, prompt_lower)
    IN Clamp(Pts(100)
             - Pts(8) * Cardinality(vague_found)
             + Pts(5) * Cardinality(action_found)
             - (IF action_found = {} THEN Pts(15) ELSE 0)
             + (IF Contains(prompt_text, <<"?">>) THEN Pts(5) ELSE 0)
             + (IF HasList(prompt_text) THEN Pts(10) ELSE 0)
             + (IF HasDigit(prompt_text) THEN Pts(5) ELSE 0)
             - (IF MostlyCaps(prompt_text) THEN Pts(10) ELSE 0))

\* A hint (domain or task type) is supplied and is a key of the table.
Recognized(table, hint) == hint # <<>> /\ \E e \in table : e[1] = Lower(hint)

KeywordsOf(table, hint) == (CHOOSE e \in table : e[1] = Lower(hint))[2]

\* lines 315-318 and 329-332: the keywords of the list found in the lowered
\* text, in the order of the list (domain_matches, task_matches)
Matches(keywords, prompt_lower) ==
    SelectSeq(keywords, LAMBDA keyword : Contains(prompt_lower, keyword))

\* Mutant: a recognized hint always costs the penalty.
HintAlwaysPenalized(table, hint, prompt_lower, bonus, penalty) ==
    IF ~Recognized(table, hint) THEN 0 ELSE -penalty

\* Mutant: a hint that is no key of the table counts as a hint without matches.
HintUnknownPenalized(table, hint, prompt_lower, bonus, penalty) ==
    IF hint = <<>> THEN 0
    ELSE IF ~Recognized(table, hint) THEN -penalty
    ELSE LET matches == Matches(KeywordsOf(table, hint), prompt_lower) IN
         IF matches = <<>> THEN -penalty ELSE bonus * Len(matches)

\* lines 313-338: each keyword of the hint's list found adds bonus; none
\* found subtracts penalty; a hint missing or unknown changes nothing.
HintScore(table, hint, prompt_lower, bonus, penalty) ==
    IF ~Recognized(table, hint) THEN 0
    ELSE LET matches == Matches(KeywordsOf(table, hint), prompt_lower) IN
         IF matches = <<>> THEN -penalty ELSE bonus * Len(matches)

\* lines 320-324: the note of the domain rule; a note is kept as the message,
\* the hint put into it and the matches listed in it (the first three)
DomainNotes(domain, prompt_lower) ==
    IF ~Recognized(DOMAIN_KEYWORDS, domain) THEN <<>>
    ELSE LET domain_matches == Matches(KeywordsOf(DOMAIN_KEYWORDS, domain), prompt_lower) IN
         IF domain_matches = <<>>
         THEN << [note |-> "Low relevance to domain", hint |-> domain, matches |-> <<>>] >>
         ELSE << [note |-> "Matches", hint |-> domain,
                  matches |-> SubSeq(domain_matches, 1, Min2(3, Len(domain_matches)))] >>

\* lines 334-338: the note of the task rule
TaskNotes(task_type, prompt_lower) ==
    IF ~Recognized(TASK_INDICATORS, task_type) THEN <<>>
    ELSE IF Matches(KeywordsOf(TASK_INDICATORS, task_type), prompt_lower) = <<>>
         THEN << [note |-> "Doesn't align with task", hint |-> task_type, matches |-> <<>>] >>
         ELSE << [note |-> "Good indicators", hint |-> task_type, matches |-> <<>>] >>

\* _calculate_relevance_score, the notes it returns (lines 306, 322-352)
RelevanceNotes(prompt_text, task_type, domain) ==
    LET prompt_lower == Lower(prompt_text) IN
    DomainNotes(domain, prompt_lower)
    \o TaskNotes(task_type, prompt_lower)
    \o (IF Found(format_words, prompt_lower) # {}
        THEN << [note |-> "Specifies output format", hint |-> <<>>, matches |-> <<>>] >>
        ELSE <<>>)

\* _calculate_relevance_score, lines 305-354
CalculateRelevanceScore(prompt_text, task_type, domain) ==
    LET prompt_lower == Lower(prompt_text) IN
    Clamp(Pts(50)
          + HintScore(DOMAIN_KEYWORDS, domain, prompt_lower, Pts(5), Pts(10))
          + HintScore(TASK_INDICATORS, task_type, prompt_lower, Pts(8), Pts(15))
          + (IF Found(context_words, prompt_lower) # {} THEN Pts(10) ELSE 0)
          + (IF Found(format_words, prompt_lower) # {} THEN Pts(10) ELSE 0))

\* Mutant: a count of exactly OPTIMAL_MIN_WORDS is still below the optimal range.
BelowOptimalInclusive(word_count) == word_count <= OPTIMAL_MIN_WORDS

\* line 379
BelowOptimal(word_count) == word_count < OPTIMAL_MIN_WORDS

\* _calculate_length_score, lines 374-403, of a word count; every quotient is exact
LengthScore(word_count) ==
    Clamp(IF word_count < MIN_WORDS
             THEN (word_count * Pts(30)) \div MIN_WORDS
          ELSE IF BelowOptimal(word_count)
             THEN Pts(50) + ((word_count - MIN_WORDS) * Pts(30))
                               \div (OPTIMAL_MIN_WORDS - MIN_WORDS)
          ELSE IF word_count <= OPTIMAL_MAX_WORDS
             THEN Pts(100)
          ELSE IF word_count <= MAX_WORDS
             THEN Pts(100) - ((word_count - OPTIMAL_MAX_WORDS) * Pts(30))
                                \div (MAX_WORDS - OPTIMAL_MAX_WORDS)
          ELSE Max2(0, Pts(70) - ((word_count - MAX_WORDS) * Pts(10)) \div 50))

\* _calculate_length_score, line 371
CalculateLengthScore(prompt_text) == LengthScore(WordCount(prompt_text))

\* PromptEvaluator.evaluate, lines 139-168, with the weights in tenths
Evaluate(weights, prompt_text, task_type, domain) ==
    LET clarity == CalculateClarityScore(prompt_text)
        relevance == CalculateRelevanceScore(prompt_text, task_type, domain)
        length == CalculateLengthScore(prompt_text)
    IN [clarity_score |-> Round2(clarity),
        relevance_score |-> Round2(relevance),
        length_score |-> Round2(length),
        final_score |-> Round2((clarity * weights.clarity + relevance * weights.relevance
                                + length * weights.length) \div 10),
        relevance_notes |-> RelevanceNotes(prompt_text, task_type, domain)]

\* evaluate_prompt, lines 445-451: the module's evaluator has the default weights
evaluate_prompt(prompt_text, task_type, domain) ==
    Evaluate(DEFAULT_WEIGHTS, prompt_text, task_type, domain)

\* ------------------------------------------------------------------- store
VersionsOf(rows, pid) == {v \in rows : v.prompt = pid}
CurrentOf(rows, pid) == {v \in rows : v.prompt = pid /\ v.current}
RowIds(rows) == {v.id : v \in rows}

Held(p) == {l[1] : l \in {k \in locks : k[2] = p}}
LockedByOther(p, id) == \E l \in locks : l[1] = id /\ l[2] # p
Release(p) == {l \in locks : l[2] # p}

\* Mutant: the versions that remain are renumbered from 1 without gaps.
ApplyRenumbering(rows, upd, del) ==
    LET kept == {IF \E u \in upd : u[1] = v.id
                 THEN [v EXCEPT !.current = (CHOOSE u \in upd : u[1] = v.id)[2]]
                 ELSE v : v \in {w \in rows : w.id \notin del}}
    IN {[v EXCEPT !.number =
            Cardinality({w \in kept : w.prompt = v.prompt /\ w.number <= v.number})] :
           v \in kept}

\* Rows after the UPDATEs upd (<<id, is_current>>) and the DELETEs del.
Apply(rows, upd, del) ==
    {IF \E u \in upd : u[1] = v.id
     THEN [v EXCEPT !.current = (CHOOSE u \in upd : u[1] = v.id)[2]]
     ELSE v : v \in {w \in rows : w.id \notin del}}

\* What a statement of p reads: committed rows with p's own writes applied.
View(p) == Apply(versions, loc[p].upd, loc[p].del)

SetFlag(upd, id, b) == {u \in upd : u[1] # id} \cup {<<id, b>>}

\* The row with the lowest version number.
GetLowestVersion(rows, pid) ==
    IF VersionsOf(rows, pid) = {} THEN NoRow
    ELSE CHOOSE v \in VersionsOf(rows, pid) :
            \A w \in VersionsOf(rows, pid) : v.number <= w.number

\* Prompt.get_latest_version: the row with the highest version number.
GetLatestVersion(rows, pid) ==
    IF VersionsOf(rows, pid) = {} THEN NoRow
    ELSE CHOOSE v \in VersionsOf(rows, pid) :
            \A w \in VersionsOf(rows, pid) : w.number <= v.number

\* ------------------------------------------------------- leaving a request
\* Mutant: the writes flushed so far are kept when the handler gives up.
ReturnKeepingWrites(p, code) ==
    /\ pc' = [pc EXCEPT ![p] = "done"]
    /\ res' = [res EXCEPT ![p] = [code |-> code, newv |-> 0]]
    /\ versions' = Apply(versions, loc[p].upd, loc[p].del)
    /\ loc' = [loc EXCEPT ![p] = NoLoc]
    /\ locks' = {l \in locks : l[2] # p}
    /\ UNCHANGED <<prompts, nextPid, nextVid, created, evals, op, pre, preEval, rec, engine>>

\* The handler returns without committing (an early return, or the except
\* branch): the session is rolled back, its writes dropped, its locks released.
Return(p, code) ==
    /\ pc' = [pc EXCEPT ![p] = "done"]
    /\ res' = [res EXCEPT ![p] = [code |-> code, newv |-> 0]]
    /\ loc' = [loc EXCEPT ![p] = NoLoc]
    /\ locks' = Release(p)
    /\ UNCHANGED <<store, op, pre, preEval, rec, engine>>

Goto(p, label, newloc) ==
    /\ pc' = [pc EXCEPT ![p] = label]
    /\ loc' = [loc EXCEPT ![p] = newloc]

\* One row lock of a multi-row locking statement: the rows are visited in
\* primary-key order; a row deleted since the statement's snapshot is skipped.
Unlocked(p) == loc[p].targets \ Held(p)

AcquireNext(p) ==
    /\ Unlocked(p) # {}
    /\ LET id == MinOf(Unlocked(p)) IN
       IF id \notin RowIds(versions)
       THEN /\ loc' = [loc EXCEPT ![p].targets = @ \ {id}]
            /\ UNCHANGED locks
       ELSE /\ ~LockedByOther(p, id)
            /\ locks' = locks \cup {<<id, p>>}
            /\ UNCHANGED loc
    /\ UNCHANGED <<store, pc, op, res, pre, preEval, rec, engine>>

\* query(PromptVersion).with_for_update().get(version_id), then the ownership
\* check: the first statements of set_current_version and of delete_version.
LockVersion(p, label) ==
    LET rows == {v \in versions : v.id = op[p].vid} IN
    IF rows = {} THEN Return(p, 404)
    ELSE /\ ~LockedByOther(p, op[p].vid)
         /\ LET v == CHOOSE r \in rows : TRUE
                owner == CHOOSE pr \in prompts : pr.id = v.prompt
            IN IF owner.user # op[p].caller THEN Return(p, 403)
               ELSE /\ locks' = locks \cup {<<v.id, p>>}
                    /\ Goto(p, label, [loc[p] EXCEPT !.version = v])
                    /\ UNCHANGED <<store, op, res, pre, preEval, rec, engine>>

\* ------------------------------------------- versions.set_current_version
\* lines 91-98
ScLock(p) ==
    /\ pc[p] = "sc_lock"
    /\ LockVersion(p, "sc_scan")

\* Mutant: the bulk UPDATE is not restricted to the version's prompt.
ScScanAllPrompts(p) ==
    /\ pc[p] = "sc_scan"
    /\ Goto(p, "sc_acquire", [loc[p] EXCEPT !.targets = RowIds(View(p))])
    /\ UNCHANGED <<store, locks, op, res, pre, preEval, rec, engine>>

\* line 101: the bulk UPDATE starts; its snapshot fixes the rows it will touch.
ScScan(p) ==
    /\ pc[p] = "sc_scan"
    /\ Goto(p, "sc_acquire",
            [loc[p] EXCEPT !.targets = RowIds(VersionsOf(View(p), loc[p].version.prompt))])
    /\ UNCHANGED <<store, locks, op, res, pre, preEval, rec, engine>>

\* line 101: the bulk UPDATE locks its rows one by one.
ScAcquire(p) ==
    /\ pc[p] = "sc_acquire"
    /\ AcquireNext(p)

\* Mutant: the target is set first and the bulk unset clears it with the rest.
ScWritesUnsetLast(p) == {<<id, FALSE>> : id \in loc[p].targets}

\* Mutant: the other versions are not unset.
ScWritesNoUnset(p) == {<<loc[p].version.id, TRUE>>}

\* lines 101-106: the bulk UPDATE writes is_current = False to its rows,
\* version.is_current = True is flushed, and the transaction commits.
ScWrites(p) ==
    SetFlag({<<id, FALSE>> : id \in loc[p].targets}, loc[p].version.id, TRUE)

ScCommit(p) ==
    /\ pc[p] = "sc_acquire"
    /\ Unlocked(p) = {}
    /\ versions' = Apply(versions, ScWrites(p), {})
    /\ pc' = [pc EXCEPT ![p] = "done"]
    /\ res' = [res EXCEPT ![p] = [code |-> 200, newv |-> 0]]
    /\ loc' = [loc EXCEPT ![p] = NoLoc]
    /\ locks' = Release(p)
    /\ UNCHANGED <<prompts, nextPid, nextVid, created, evals, op, pre, preEval, rec, engine>>

\* Mutant: the evaluations of deleted versions are left behind.
NoCascade(rows, vids) == rows

\* cascade='all, delete-orphan' of PromptVersion.evaluations (models.py
\* 135-136): the evaluations rows without those of the deleted versions vids.
Cascade(rows, vids) == {e \in rows : e.version \notin vids}

\* ------------------------------------------------ versions.delete_version
\* lines 196-203
DvLock(p) ==
    /\ pc[p] = "dv_lock"
    /\ LockVersion(p, "dv_scan")

\* lines 206-208: SELECT ... WHERE prompt_id = :id FOR UPDATE starts.
DvScan(p) ==
    /\ pc[p] = "dv_scan"
    /\ Goto(p, "dv_acquire",
            [loc[p] EXCEPT !.targets = RowIds(VersionsOf(View(p), loc[p].version.prompt))])
    /\ UNCHANGED <<store, locks, op, res, pre, preEval, rec, engine>>

\* lines 206-208: the locking SELECT locks its rows one by one.
DvAcquire(p) ==
    /\ pc[p] = "dv_acquire"
    /\ AcquireNext(p)

\* Mutant: the rows are counted as they were when the request arrived.
StaleVersionCount(p) == Cardinality(VersionsOf(pre[p], loc[p].version.prompt))

\* lines 206-208: the count of the rows the locking SELECT returned
VersionCount(p) == Cardinality(loc[p].targets)

\* Mutant: the only-version check is off by one.
OnlyVersionOffByOne(p) == VersionCount(p) < 1

\* line 210
OnlyVersion(p) == VersionCount(p) <= 1

\* lines 209-211

DvCount(p) ==
    /\ pc[p] = "dv_acquire"
    /\ Unlocked(p) = {}
    /\ IF OnlyVersion(p) THEN Return(p, 400)
       ELSE /\ Goto(p, "dv_delete", loc[p])
            /\ UNCHANGED <<store, locks, op, res, pre, preEval, rec, engine>>

\* Mutant: no remaining version is made current.
NoNewCurrent(p) == {}

\* Mutant: the remaining version with the lowest number is made current.
NewCurrentLowest(p) ==
    LET vid == loc[p].version.id
        others == {v \in Apply(versions, loc[p].upd, {vid}) :
                      v.prompt = loc[p].version.prompt}
        n == GetLowestVersion(others, loc[p].version.prompt)
    IN IF loc[p].version.current /\ others # {} /\ ~n.current
       THEN {<<n.id, TRUE>>} ELSE {}

\* lines 219-229: if the deleted version was current, the remaining version
\* with the highest number is made current (an UPDATE only if its flag changes).
NewCurrentWrites(p) ==
    LET vid == loc[p].version.id
        others == {v \in Apply(versions, loc[p].upd, {vid}) :
                      v.prompt = loc[p].version.prompt}
        n == GetLatestVersion(others, loc[p].version.prompt)
    IN IF loc[p].version.current /\ others # {} /\ ~n.current
       THEN {<<n.id, TRUE>>} ELSE {}

\* lines 214-229
DvDelete(p) ==
    /\ pc[p] = "dv_delete"
    /\ Goto(p, "dv_commit",
            [loc[p] EXCEPT !.del = {loc[p].version.id}, !.upd = NewCurrentWrites(p)])
    /\ UNCHANGED <<store, locks, op, res, pre, preEval, rec, engine>>

\* line 231: the pending UPDATE is flushed (a vanished row raises, lines
\* 237-240), the version is deleted with its evaluations (the cascade of
\* PromptVersion.evaluations, models.py 135-136) and the transaction commits.
DvCommit(p) ==
    /\ pc[p] = "dv_commit"
    /\ LET ids == {u[1] : u \in loc[p].upd} IN
       IF ids \ RowIds(versions) # {} THEN Return(p, 500)
       ELSE /\ \A id \in ids : ~LockedByOther(p, id)
            /\ versions' = View(p)
            /\ evaluations' = Cascade(evaluations, loc[p].del)
            /\ pc' = [pc EXCEPT ![p] = "done"]
            /\ res' = [res EXCEPT ![p] = [code |-> 200, newv |-> 0]]
            /\ loc' = [loc EXCEPT ![p] = NoLoc]
            /\ locks' = Release(p)
            /\ UNCHANGED <<prompts, nextPid, nextVid, created, nextEid, now, op, pre,
                           preEval, rec, engine>>

\* ------------------------------------------------- prompts.update_prompt
\* lines 208-211 and the test of line 239 (prompt_text present and not blank)
UpPrompt(p) ==
    /\ pc[p] = "up_prompt"
    /\ IF ~\E pr \in prompts : pr.id = op[p].pid /\ pr.user = op[p].caller
       THEN Return(p, 404)
       ELSE /\ Goto(p, IF Strip(op[p].text) = <<>> THEN "up_commit" ELSE "up_current",
                    loc[p])
            /\ UNCHANGED <<store, locks, op, res, pre, preEval, rec, engine>>

\* Mutant: the text is compared before it is trimmed.
TextChangedUntrimmed(cur, text) == cur = NoRow \/ cur.text # text

\* line 243: not current or current.prompt_text != data['prompt_text'].strip()
TextChanged(cur, text) == cur = NoRow \/ cur.text # Strip(text)

\* lines 240-246: prompt.get_current_version() (a plain SELECT ... LIMIT 1 of
\* the rows flagged current: any one of them when there are several) and the
\* comparison with the trimmed text.
UpCurrent(p) ==
    /\ pc[p] = "up_current"
    /\ LET cur == CurrentOf(View(p), op[p].pid) IN
       \E c \in (IF cur = {} THEN {NoRow} ELSE cur) :
          Goto(p, IF ~TextChanged(c, op[p].text) THEN "up_commit"
                  ELSE IF c = NoRow THEN "up_latest" ELSE "up_flush",
               [loc[p] EXCEPT !.current = c.id])
    /\ UNCHANGED <<store, locks, op, res, pre, preEval, rec, engine>>

\* line 249, autoflush before the query: UPDATE of the old current row
\* (current.is_current = False).  A row deleted meanwhile matches nothing and
\* the flush raises; the request ends in a 500.
UpFlush(p) ==
    /\ pc[p] = "up_flush"
    /\ IF loc[p].current \notin RowIds(versions) THEN Return(p, 500)
       ELSE /\ ~LockedByOther(p, loc[p].current)
            /\ locks' = locks \cup {<<loc[p].current, p>>}
            /\ Goto(p, "up_latest",
                    [loc[p] EXCEPT !.upd = SetFlag(@, loc[p].current, FALSE)])
            /\ UNCHANGED <<store, op, res, pre, preEval, rec, engine>>

\* Mutant: the next number is the number of versions plus one.
NextVersionByCount(rows, pid) == Cardinality(VersionsOf(rows, pid)) + 1

\* lines 249-250: next_version = latest.version_number + 1, or 1
NextVersion(rows, pid) ==
    IF GetLatestVersion(rows, pid) = NoRow THEN 1
    ELSE GetLatestVersion(rows, pid).number + 1

\* lines 249-260
UpLatest(p) ==
    /\ pc[p] = "up_latest"
    /\ Goto(p, "up_commit",
            [loc[p] EXCEPT !.next = NextVersion(View(p), op[p].pid), !.insert = TRUE])
    /\ UNCHANGED <<store, locks, op, res, pre, preEval, rec, engine>>

\* lines 253-259: the row of the new version
NewVersion(p) ==
    [id |-> nextVid, prompt |-> op[p].pid, number |-> loc[p].next,
     text |-> Strip(op[p].text), current |-> TRUE]

\* unique_version_per_prompt (models.py 138-140) and the foreign key to prompts
InsertRejected(row) ==
    \/ \E v \in versions : v.prompt = row.prompt /\ v.number = row.number
    \/ ~\E pr \in prompts : pr.id = row.prompt

\* lines 262-277: the INSERT is flushed and the transaction commits; a
\* rejected INSERT rolls back (lines 275-277).
UpCommit(p) ==
    /\ pc[p] = "up_commit"
    /\ IF loc[p].insert /\ InsertRejected(NewVersion(p)) THEN Return(p, 500)
       ELSE /\ versions' = View(p) \cup (IF loc[p].insert THEN {NewVersion(p)} ELSE {})
            /\ nextVid' = IF loc[p].insert THEN nextVid + 1 ELSE nextVid
            /\ created' = created \cup
                  (IF loc[p].insert
                   THEN {[id |-> nextVid, prompt |-> op[p].pid, number |-> loc[p].next]}
                   ELSE {})
            /\ pc' = [pc EXCEPT ![p] = "done"]
            /\ res' = [res EXCEPT ![p] =
                         [code |-> 200, newv |-> IF loc[p].insert THEN nextVid ELSE 0]]
            /\ loc' = [loc EXCEPT ![p] = NoLoc]
            /\ locks' = Release(p)
            /\ UNCHANGED <<prompts, nextPid, evals, op, pre, preEval, rec, engine>>

\* ------------------------------------------------- prompts.create_prompt
\* lines 114-157: the prompt and its version 1 are inserted in one transaction.
CreatePrompt(p) ==
    /\ pc[p] = "cp"
    /\ IF Strip(op[p].text) = <<>> THEN Return(p, 400)
       ELSE /\ prompts' = prompts \cup {[id |-> nextPid, user |-> op[p].caller]}
            /\ versions' = versions \cup
                  {[id |-> nextVid, prompt |-> nextPid, number |-> 1,
                    text |-> Strip(op[p].text), current |-> TRUE]}
            /\ created' = created \cup {[id |-> nextVid, prompt |-> nextPid, number |-> 1]}
            /\ nextPid' = nextPid + 1
            /\ nextVid' = nextVid + 1
            /\ pc' = [pc EXCEPT ![p] = "done"]
            /\ res' = [res EXCEPT ![p] = [code |-> 201, newv |-> nextVid]]
            /\ UNCHANGED <<evals, locks, op, loc, pre, preEval, rec, engine>>

\* ------------------------------------------------- prompts.delete_prompt
\* lines 294-307: the prompt is deleted; the cascade of Prompt.versions
\* (models.py 77-78) deletes its version rows with it, and the cascade of
\* PromptVersion.evaluations (models.py 135-136) their evaluations.
DeletePrompt(p) ==
    /\ pc[p] = "dp"
    /\ IF ~\E pr \in prompts : pr.id = op[p].pid /\ pr.user = op[p].caller
       THEN Return(p, 404)
       ELSE /\ \A v \in VersionsOf(versions, op[p].pid) : ~LockedByOther(p, v.id)
            /\ prompts' = {pr \in prompts : pr.id # op[p].pid}
            /\ versions' = {v \in versions : v.prompt # op[p].pid}
            /\ evaluations' = Cascade(evaluations, RowIds(VersionsOf(versions, op[p].pid)))
            /\ pc' = [pc EXCEPT ![p] = "done"]
            /\ res' = [res EXCEPT ![p] = [code |-> 200, newv |-> 0]]
            /\ UNCHANGED <<nextPid, nextVid, created, nextEid, now, locks, op, loc, pre,
                           preEval, rec, engine>>

\* ------------------------------------------------------ routes/evaluation
\* Every prompt of the model has task type "generation" and no domain.
PromptTaskType == <<"g", "e", "n", "e", "r", "a", "t", "i", "o", "n">>
PromptDomain == <<>>

\* PromptVersion.query.get(version_id): the row, or none
GetVersion(rows, vid) ==
    IF vid \in RowIds(rows) THEN CHOOSE v \in rows : v.id = vid ELSE NoRow

\* Mutant: a missing version is not noticed.
NeverMissing(version) == FALSE

\* lines 71-72: if not version
Missing(version) == version = NoRow

\* Prompt.query.filter_by(id=prompt_id, user_id=user_id).first() finds a row;
\* also the ownership check of lines 75-77 on a version's prompt.
OwnPrompt(pid, caller) == \E pr \in prompts : pr.id = pid /\ pr.user = caller

\* lines 81-98: the row of the evaluation of version v, stamped t
NewEvaluation(v, id, t) ==
    LET result == evaluate_prompt(v.text, PromptTaskType, PromptDomain) IN
    [id |-> id, version |-> v.id,
     clarity_score |-> result.clarity_score,
     relevance_score |-> result.relevance_score,
     length_score |-> result.length_score,
     final_score |-> result.final_score,
     evaluated_at |-> t]

\* Mutant: the evaluation replaces the ones the version already has.
Replaced(rows, e) == {r \in rows : r.version # e.version} \cup {e}

\* db.session.add(evaluation) and the commit: one more row
Added(rows, e) == rows \cup {e}

\* evaluate_version, lines 68-114.  evaluated_at is the clock's reading at the
\* INSERT: the time of the latest evaluation or a later one.
EvaluateVersion(p) ==
    /\ pc[p] = "ev"
    /\ LET version == GetVersion(versions, op[p].vid) IN
       IF Missing(version) THEN Return(p, 404)
       ELSE IF ~OwnPrompt(version.prompt, op[p].caller) THEN Return(p, 403)
       ELSE \E t \in {now, now + 1} :
               /\ evaluations' = Added(evaluations, NewEvaluation(version, nextEid, t))
               /\ nextEid' = nextEid + 1
               /\ now' = t
               /\ pc' = [pc EXCEPT ![p] = "done"]
               /\ res' = [res EXCEPT ![p] = [code |-> 200, newv |-> 0]]
               /\ UNCHANGED <<prompts, versions, nextPid, nextVid, created, locks, op, loc,
                              pre, preEval, rec, engine>>

\* version.get_latest_evaluation() of lines 141-142 finds a row
Evaluated(rows, v) == \E e \in rows : e.version = v.id

\* Mutant: versions already evaluated are not skipped.
UnevaluatedAll(pid) == VersionsOf(versions, pid)

\* lines 139-142: the versions of the prompt the loop does not skip
Unevaluated(pid) == {v \in VersionsOf(versions, pid) : ~Evaluated(evaluations, v)}

\* evaluate_all_versions, lines 130-173.  prompt.versions comes ordered by
\* version number, highest first (models.py 77-78), and the rows are inserted
\* in that order: rank[v] rows are inserted before the row of v, and
\* evaluated_at never decreases along the inserts.
EvaluateAllVersions(p) ==
    /\ pc[p] = "ea"
    /\ IF ~OwnPrompt(op[p].pid, op[p].caller) THEN Return(p, 404)
       ELSE LET todo == Unevaluated(op[p].pid)
                rank == [v \in todo |-> Cardinality({w \in todo : w.number > v.number})]
                k == Cardinality(todo)
            IN \E at \in [0..(k - 1) -> now..(now + k)] :
                  /\ \A i \in 0..(k - 1) :
                        at[i] \in {IF i = 0 THEN now ELSE at[i - 1],
                                   (IF i = 0 THEN now ELSE at[i - 1]) + 1}
                  /\ evaluations' = evaluations \cup
                        {NewEvaluation(v, nextEid + rank[v], at[rank[v]]) : v \in todo}
                  /\ nextEid' = nextEid + k
                  /\ now' = IF k = 0 THEN now ELSE at[k - 1]
                  /\ pc' = [pc EXCEPT ![p] = "done"]
                  /\ res' = [res EXCEPT ![p] = [code |-> 200, newv |-> 0]]
                  /\ UNCHANGED <<prompts, versions, nextPid, nextVid, created, locks, op,
                                 loc, pre, preEval, rec, engine>>

\* Mutant: the evaluations are not restricted to the prompt.
EvaluationsOfAny(pid) == evaluations

\* query(PromptEvaluation).join(PromptVersion).filter(prompt_id == :id),
\* lines 230-231 and 241-242
EvaluationsOf(pid) == {e \in evaluations : e.version \in RowIds(VersionsOf(versions, pid))}

\* order_by(final_score.desc()): the orders the store may return rows in.
\* Rows that tie on final_score come in any order.
ByScoreDesc(rows) ==
    {s \in [1..Cardinality(rows) -> rows] :
        /\ \A i, j \in DOMAIN s : i # j => s[i] # s[j]
        /\ \A i, j \in DOMAIN s : i < j => s[i].final_score >= s[j].final_score}

\* get_recommendation, lines 223-263: best is the first row by descending
\* final score; the alternatives are the first five other rows.
GetRecommendation(p) ==
    /\ pc[p] = "rc"
    /\ IF ~OwnPrompt(op[p].pid, op[p].caller) THEN Return(p, 404)
       ELSE IF EvaluationsOf(op[p].pid) = {} THEN Return(p, 404)
       ELSE \E first \in ByScoreDesc(EvaluationsOf(op[p].pid)) :
            \E others \in ByScoreDesc({e \in EvaluationsOf(op[p].pid) : e.id # first[1].id}) :
               /\ rec' = [rec EXCEPT ![p] =
                            [best |-> first[1],
                             alternatives |-> SubSeq(others, 1, Min2(5, Len(others)))]]
               /\ pc' = [pc EXCEPT ![p] = "done"]
               /\ res' = [res EXCEPT ![p] = [code |-> 200, newv |-> 0]]
               /\ UNCHANGED <<store, locks, op, loc, pre, preEval, engine>>

\* The hints a quick_evaluate request carries: none, or a key of the table.
Coding == <<"c", "o", "d", "i", "n", "g">>
QuickTaskTypes == {<<>>, PromptTaskType}
QuickDomains == {<<>>, Coding}

\* Mutant: the scores are stored as an evaluation, as evaluate_version does.
QuickEvaluateSaving(p) ==
    /\ pc[p] = "qe"
    /\ evaluations' = Added(evaluations,
                            NewEvaluation([NoRow EXCEPT !.text = op[p].text], nextEid, now))
    /\ pc' = [pc EXCEPT ![p] = "done"]
    /\ res' = [res EXCEPT ![p] = [code |-> 200, newv |-> 0]]
    /\ UNCHANGED <<prompts, versions, nextPid, nextVid, created, nextEid, now, locks, op,
                   loc, pre, preEval, rec, engine>>

\* quick_evaluate, lines 285-307: a missing or empty prompt_text is refused
\* (lines 287-288); otherwise the engine scores the text under the request's
\* hints and the scores are the response.  No statement touches the session.
QuickEvaluate(p) ==
    /\ pc[p] = "qe"
    /\ IF op[p].text = <<>> THEN Return(p, 400)
       ELSE \E k \in QuickTaskTypes, d \in QuickDomains :
               /\ arg' = [fn |-> "evaluate_prompt", text |-> op[p].text,
                          task_type |-> k, domain |-> d]
               /\ out' = evaluate_prompt(op[p].text, k, d)
               /\ pc' = [pc EXCEPT ![p] = "done"]
               /\ res' = [res EXCEPT ![p] = [code |-> 200, newv |-> 0]]
               /\ UNCHANGED <<store, locks, op, loc, pre, preEval, rec>>

\* ------------------------------------------------- the store's lock waits
\* The row the next statement of p is waiting for (0: it is not waiting).
Wanted(p) ==
    LET blocked(id) == id \in RowIds(versions) /\ LockedByOther(p, id) IN
    CASE pc[p] \in {"sc_lock", "dv_lock"} ->
            IF blocked(op[p].vid) THEN op[p].vid ELSE 0
      [] pc[p] \in {"sc_acquire", "dv_acquire"} /\ Unlocked(p) # {} ->
            IF blocked(MinOf(Unlocked(p))) THEN MinOf(Unlocked(p)) ELSE 0
      [] pc[p] = "up_flush" ->
            IF blocked(loc[p].current) THEN loc[p].current ELSE 0
      [] pc[p] = "dv_commit" /\ (\E u \in loc[p].upd : blocked(u[1])) ->
            CHOOSE id \in {u[1] : u \in loc[p].upd} : blocked(id)
      [] OTHER -> 0

Blocker(p) ==
    IF Wanted(p) = 0 THEN 0 ELSE (CHOOSE l \in locks : l[1] = Wanted(p))[2]

\* p is on a cycle of lock waits: it belongs to a set of waiting transactions
\* each of which waits for, and is waited for by, a member of the set.
Deadlocked(p) ==
    LET f == [q \in Procs |-> Blocker(q)] IN
    \E S \in SUBSET Procs :
        /\ p \in S
        /\ \A q \in S : f[q] \in S /\ \E r \in S : f[r] = q

\* Mutant: the error is swallowed and the statement keeps waiting.
DeadlockIgnored(p) ==
    /\ Deadlocked(p)
    /\ UNCHANGED vars

\* The store breaks a cycle of lock waits by raising an error in the waiting
\* statement of one transaction of the cycle; the handler rolls back and
\* answers 500 (versions.py 113-116 and 237-240; in update_prompt the error
\* leaves the handler and the session is rolled back with the request).
DeadlockAbort(p) ==
    /\ Deadlocked(p)
    /\ Return(p, 500)

\* ---------------------------------------------------------------- requests
FirstStep(kind) ==
    CASE kind = "create" -> "cp"
      [] kind = "update" -> "up_prompt"
      [] kind = "promote" -> "sc_lock"
      [] kind = "delete" -> "dv_lock"
      [] kind = "deletePrompt" -> "dp"
      [] kind = "evaluate" -> "ev"
      [] kind = "evaluateAll" -> "ea"
      [] kind = "recommend" -> "rc"
      [] kind = "quickEvaluate" -> "qe"

Request(kind, caller, pid, vid, text) ==
    [kind |-> kind, caller |-> caller, pid |-> pid, vid |-> vid, text |-> text]

\* Every request a client can send; creating requests stop at the id bounds.
Requests ==
    {Request("create", u, 0, 0, t) : u \in Users, t \in Inputs}
    \cup {Request("update", u, pid, 0, t) : u \in Users, pid \in 1..MaxPid, t \in Inputs}
    \cup {Request(k, u, 0, vid, <<>>) :
             k \in {"promote", "delete"}, u \in Users, vid \in 1..MaxVid}
    \cup {Request("deletePrompt", u, pid, 0, <<>>) : u \in Users, pid \in 1..MaxPid}

Accept(p, r) ==
    /\ pc' = [pc EXCEPT ![p] = FirstStep(r.kind)]
    /\ op' = [op EXCEPT ![p] = r]
    /\ res' = [res EXCEPT ![p] = NoRes]
    /\ pre' = [pre EXCEPT ![p] = versions]
    /\ preEval' = [preEval EXCEPT ![p] = evaluations]
    /\ rec' = [rec EXCEPT ![p] = NoRec]
    /\ UNCHANGED <<store, locks, loc, engine>>

\* A request arrives while no other request is being served.
Call(p) ==
    /\ \A q \in Procs : pc[q] = "idle"
    /\ \E r \in Requests :
          /\ r.kind = "create" => nextPid <= MaxPid /\ nextVid <= MaxVid
          /\ r.kind = "update" => nextVid <= MaxVid
          /\ Accept(p, r)

\* The response has been sent: the handler thread is free for the next request.
Reply(p) ==
    /\ pc[p] = "done"
    /\ pc' = [pc EXCEPT ![p] = "idle"]
    /\ op' = [op EXCEPT ![p] = NoOp]
    /\ res' = [res EXCEPT ![p] = NoRes]
    /\ pre' = [pre EXCEPT ![p] = {}]
    /\ preEval' = [preEval EXCEPT ![p] = {}]
    /\ rec' = [rec EXCEPT ![p] = NoRec]
    /\ arg' = NoArg
    /\ out' = NoOut
    /\ UNCHANGED <<store, locks, loc>>

\* The owner's requests on the versions of prompt 1, one per handler thread,
\* arriving at any time.
ConcRequests ==
    {r \in Requests : /\ r.kind \in {"update", "promote", "delete"}
                      /\ r.caller = 1
                      /\ r.kind = "update" => r.pid = 1 /\ Strip(r.text) = r.text}

ConcCallOf(p, kinds) ==
    /\ pc[p] = "idle"
    /\ \E r \in ConcRequests :
          /\ r.kind \in kinds
          /\ r.kind # "update" => r.vid < nextVid
          /\ Accept(p, r)

ConcCall(p) == ConcCallOf(p, {"update", "promote", "delete"})

\* Only promoteToCurrent and deleteVersion requests arrive.
StructCall(p) == ConcCallOf(p, {"promote", "delete"})

\* ------------------------------------------------------------------ specs
\* No evaluation has been stored.
NoEvaluations ==
    /\ evaluations = {}
    /\ nextEid = 1
    /\ now = 0
    /\ preEval = [p \in Procs |-> {}]
    /\ rec = [p \in Procs |-> NoRec]

\* The engine is not being called.
EngineIdle ==
    /\ arg = NoArg
    /\ out = NoOut

Init ==
    /\ prompts = {}
    /\ versions = {}
    /\ nextPid = 1
    /\ nextVid = 1
    /\ locks = {}
    /\ created = {}
    /\ pc = [p \in Procs |-> "idle"]
    /\ op = [p \in Procs |-> NoOp]
    /\ loc = [p \in Procs |-> NoLoc]
    /\ res = [p \in Procs |-> NoRes]
    /\ pre = [p \in Procs |-> {}]
    /\ NoEvaluations
    /\ EngineIdle

\* The statements of set_current_version and delete_version.
StructStep(p) ==
    \/ ScLock(p) \/ ScScan(p) \/ ScAcquire(p) \/ ScCommit(p)
    \/ DvLock(p) \/ DvScan(p) \/ DvAcquire(p) \/ DvCount(p) \/ DvDelete(p) \/ DvCommit(p)

\* The statements of update_prompt.
UpStep(p) ==
    UpPrompt(p) \/ UpCurrent(p) \/ UpFlush(p) \/ UpLatest(p) \/ UpCommit(p)

Step(p) == StructStep(p) \/ UpStep(p)

Next ==
    \/ Call(1)
    \/ Reply(1)
    \/ CreatePrompt(1)
    \/ DeletePrompt(1)
    \/ Step(1)

Spec == Init /\ [][Next]_vars

\* Prompt 1 of user 1 with two versions, either of them current.
ConcInit ==
    /\ prompts = {[id |-> 1, user |-> 1]}
    /\ \E c \in {1, 2} :
          versions = {[id |-> 1, prompt |-> 1, number |-> 1, text |-> <<"a">>,
                       current |-> (c = 1)],
                      [id |-> 2, prompt |-> 1, number |-> 2, text |-> <<"b">>,
                       current |-> (c = 2)]}
    /\ nextPid = 2
    /\ nextVid = 3
    /\ locks = {}
    /\ created = {[id |-> 1, prompt |-> 1, number |-> 1],
                  [id |-> 2, prompt |-> 1, number |-> 2]}
    /\ pc = [p \in Procs |-> "idle"]
    /\ op = [p \in Procs |-> NoOp]
    /\ loc = [p \in Procs |-> NoLoc]
    /\ res = [p \in Procs |-> NoRes]
    /\ pre = [p \in Procs |-> {}]
    /\ NoEvaluations
    /\ EngineIdle

ConcNext == \E p \in Procs : ConcCall(p) \/ Step(p) \/ DeadlockAbort(p)

ConcSpec == ConcInit /\ [][ConcNext]_vars

\* Concurrent promoteToCurrent and deleteVersion requests alone, under the
\* store's scheduling: a statement that can run does run, and the store does
\* break a cycle of lock waits.
StructNext == \E p \in Procs : StructCall(p) \/ StructStep(p) \/ DeadlockAbort(p)

FairStructSpec ==
    /\ ConcInit
    /\ [][StructNext]_vars
    /\ WF_vars(\E p \in Procs : StructStep(p) \/ DeadlockAbort(p))

\* ------------------------------------------------- failing transactions
\* A statement of the handler raises (the store fails, the connection is
\* lost): the except branch rolls back and answers 500 (versions.py 113-116,
\* 237-240; prompts.py 275-277, and the session's removal with the request
\* for an error raised before the commit of update_prompt).
Fail(p) ==
    /\ pc[p] \notin {"idle", "done"}
    /\ Return(p, 500)

\* A request of the owner on prompt 1 arrives while no other is being served.
FailCall(p) ==
    /\ \A q \in Procs : pc[q] = "idle"
    /\ \E r \in ConcRequests :
          /\ r.kind = "update" => nextVid <= MaxVid
          /\ Accept(p, r)

FailNext == FailCall(1) \/ Reply(1) \/ Step(1) \/ Fail(1)

\* The requests on the versions of a prompt, one at a time, any statement of
\* which may fail.
FailSpec == ConcInit /\ [][FailNext]_vars

\* ------------------------------------------------- two prompts, concurrent
\* The owners' requests on the versions of prompts 1 and 2; an update brings
\* the text of the version that is not current.
PairRequests ==
    {Request("update", 1, 1, 0, <<"a">>), Request("update", 2, 2, 0, <<"b">>)}
    \cup {Request(k, IF vid <= 2 THEN 1 ELSE 2, 0, vid, <<>>) :
             k \in {"promote", "delete"}, vid \in 1..4}

PairCall(p) ==
    /\ pc[p] = "idle"
    /\ \E r \in PairRequests : Accept(p, r)

\* Prompt 1 of user 1 and prompt 2 of user 2, each with the versions "a" and
\* "b": the second is current in prompt 1, the first in prompt 2.
PairInit ==
    /\ prompts = {[id |-> 1, user |-> 1], [id |-> 2, user |-> 2]}
    /\ versions = {[id |-> 1, prompt |-> 1, number |-> 1, text |-> <<"a">>,
                    current |-> FALSE],
                   [id |-> 2, prompt |-> 1, number |-> 2, text |-> <<"b">>,
                    current |-> TRUE],
                   [id |-> 3, prompt |-> 2, number |-> 1, text |-> <<"a">>,
                    current |-> TRUE],
                   [id |-> 4, prompt |-> 2, number |-> 2, text |-> <<"b">>,
                    current |-> FALSE]}
    /\ nextPid = 3
    /\ nextVid = 5
    /\ locks = {}
    /\ created = {[id |-> 1, prompt |-> 1, number |-> 1],
                  [id |-> 2, prompt |-> 1, number |-> 2],
                  [id |-> 3, prompt |-> 2, number |-> 1],
                  [id |-> 4, prompt |-> 2, number |-> 2]}
    /\ pc = [p \in Procs |-> "idle"]
    /\ op = [p \in Procs |-> NoOp]
    /\ loc = [p \in Procs |-> NoLoc]
    /\ res = [p \in Procs |-> NoRes]
    /\ pre = [p \in Procs |-> {}]
    /\ NoEvaluations
    /\ EngineIdle

PairNext == \E p \in Procs : PairCall(p) \/ Step(p) \/ DeadlockAbort(p)

PairSpec == PairInit /\ [][PairNext]_vars

\* ------------------------------------------------- evaluations, sequential
\* The texts of quick_evaluate requests: none, blank, and a prompt.
QuickTexts ==
    { <<>>, <<" ">>,
      <<"W", "r", "i", "t", "e", " ", "a", " ", "f", "u", "n", "c", "t", "i", "o", "n", ".">> }

\* The requests of the evaluation routes.
EvalRequests ==
    {Request("evaluate", u, 0, vid, <<>>) : u \in Users, vid \in 1..MaxVid}
    \cup {Request(k, u, pid, 0, <<>>) :
             k \in {"evaluateAll", "recommend"}, u \in Users, pid \in 1..MaxPid}
    \cup {Request("quickEvaluate", u, 0, 0, t) : u \in Users, t \in QuickTexts}

\* A request of the evaluation routes, or one that promotes or deletes,
\* arrives while no other is being served; evaluating requests stop at the
\* bound of the evaluation ids.
EvalCall(p) ==
    /\ \A q \in Procs : pc[q] = "idle"
    /\ \E r \in EvalRequests
                \cup {s \in Requests : s.kind \in {"promote", "delete", "deletePrompt"}} :
          /\ r.kind = "evaluate" => nextEid <= MaxEid
          /\ r.kind = "evaluateAll" =>
                nextEid + Cardinality(Unevaluated(r.pid)) - 1 <= MaxEid
          /\ Accept(p, r)

\* Prompt 1 of user 1 with the versions "a" and "a b", the second current,
\* and prompt 2 of user 2 with the version "Write".
EvalInit ==
    /\ prompts = {[id |-> 1, user |-> 1], [id |-> 2, user |-> 2]}
    /\ versions = {[id |-> 1, prompt |-> 1, number |-> 1, text |-> <<"a">>,
                    current |-> FALSE],
                   [id |-> 2, prompt |-> 1, number |-> 2, text |-> <<"a", " ", "b">>,
                    current |-> TRUE],
                   [id |-> 3, prompt |-> 2, number |-> 1,
                    text |-> <<"W", "r", "i", "t", "e">>, current |-> TRUE]}
    /\ nextPid = 3
    /\ nextVid = 4
    /\ locks = {}
    /\ created = {[id |-> 1, prompt |-> 1, number |-> 1],
                  [id |-> 2, prompt |-> 1, number |-> 2],
                  [id |-> 3, prompt |-> 2, number |-> 1]}
    /\ pc = [p \in Procs |-> "idle"]
    /\ op = [p \in Procs |-> NoOp]
    /\ loc = [p \in Procs |-> NoLoc]
    /\ res = [p \in Procs |-> NoRes]
    /\ pre = [p \in Procs |-> {}]
    /\ NoEvaluations
    /\ EngineIdle

EvalNext ==
    \/ EvalCall(1)
    \/ Reply(1)
    \/ EvaluateVersion(1)
    \/ EvaluateAllVersions(1)
    \/ GetRecommendation(1)
    \/ QuickEvaluate(1)
    \/ DeletePrompt(1)
    \/ StructStep(1)

EvalSpec == EvalInit /\ [][EvalNext]_vars

\* ------------------------------------------------- the engine's inputs
\* Scored texts are put together from these fragments: action words, domain
\* keywords, vague words, a list marker, a question mark, capitals.
Fragments ==
    << <<"W", "r", "i", "t", "e", " ">>,
       <<"a", " ", "f", "u", "n", "c", "t", "i", "o", "n", ".">>,
       <<"s", "o", "m", "e", "t", "h", "i", "n", "g", " ">>,
       <<"c", "o", "d", "e", " ", "f", "o", "r", " ">>,
       <<"1", ".", " ">>,
       <<"?">>,
       <<"R", "E", "V", "I", "E", "W", " ", "P", "A", "T", "I", "E", "N", "T", " ">>,
       <<"s", "o", "m", "e", "t", "h", "i", "n", "g", " ", "s", "t", "u", "f", "f", " ", "t",
         "h", "i", "n", "g", "s", " ", "m", "a", "y", "b", "e", " ", "e", "t", "c", " ", "w",
         "h", "a", "t", "e", "v", "e", "r", " ", "s", "o", "m", "e", "h", "o", "w", " ", "s",
         "o", "m", "e", "w", "h", "e", "r", "e", " ", "a", "n", "y", "t", "h", "i", "n", "g",
         " ", "e", "v", "e", "r", "y", "t", "h", "i", "n", "g", " ", "n", "o", "t", "h", "i",
         "n", "g", " ", "k", "i", "n", "d", " ", "o", "f", " ", "s", "o", "r", "t", " ", "o",
         "f", " ", "l", "i", "k", "e", " ", "b", "a", "s", "i", "c", "a", "l", "l", "y", " ",
         "a", "c", "t", "u", "a", "l", "l", "y", " ">>,
       <<"c", "r", "e", "a", "t", "e", " ", "p", "y", "t", "h", "o", "n", " ", "a", "p", "i",
         " ", "c", "l", "a", "s", "s", " ", "m", "e", "t", "h", "o", "d", " ">> >>

\* The hints: none, a key of the table, a key in another case, no key.
TaskTypes ==
    { <<>>,
      <<"g", "e", "n", "e", "r", "a", "t", "i", "o", "n">>,
      <<"A", "n", "a", "l", "y", "s", "i", "s">>,
      <<"c", "h", "a", "t">> }
Domains ==
    { <<>>,
      <<"c", "o", "d", "i", "n", "g">>,
      <<"H", "e", "a", "l", "t", "h", "c", "a", "r", "e">>,
      <<"f", "i", "n", "a", "n", "c", "e">> }

RECURSIVE Join(_, _)
Join(S, i) ==
    IF i > Len(Fragments) THEN <<>>
    ELSE (IF i \in S THEN Fragments[i] ELSE <<>>) \o Join(S, i + 1)

\* The texts of at most MaxFrags fragments, trimmed as stored texts are.
ScoreTexts ==
    {Strip(Join(S, 1)) :
        S \in {T \in SUBSET (1..Len(Fragments)) : T # {} /\ Cardinality(T) <= MaxFrags}}

\* The text of n words "x x ... x".
Words(n) == [i \in 1..(2 * n - 1) |-> IF i % 2 = 1 THEN "x" ELSE " "]

\* The calls of the engine: evaluate_prompt on the texts with every pair of
\* hints, and _calculate_length_score on the texts of 0..MaxWords words.
Calls ==
    {[fn |-> "evaluate_prompt", text |-> t, task_type |-> k, domain |-> d] :
        t \in ScoreTexts, k \in TaskTypes, d \in Domains}
    \cup {[fn |-> "_calculate_length_score", text |-> Words(n), task_type |-> <<>>,
           domain |-> <<>>] : n \in 0..MaxWords}

ScoreInit ==
    /\ prompts = {}
    /\ versions = {}
    /\ nextPid = 1
    /\ nextVid = 1
    /\ locks = {}
    /\ created = {}
    /\ pc = [p \in Procs |-> "idle"]
    /\ op = [p \in Procs |-> NoOp]
    /\ loc = [p \in Procs |-> NoLoc]
    /\ res = [p \in Procs |-> NoRes]
    /\ pre = [p \in Procs |-> {}]
    /\ NoEvaluations
    /\ arg \in Calls
    /\ out = NoOut

\* evaluate_prompt(prompt_text, task_type, domain) is called and returns.
EvaluatePrompt ==
    /\ arg.fn = "evaluate_prompt"
    /\ out = NoOut
    /\ out' = evaluate_prompt(arg.text, arg.task_type, arg.domain)
    /\ UNCHANGED <<store, locks, pc, op, loc, res, pre, preEval, rec, arg>>

\* evaluator._calculate_length_score(prompt_text) is called and returns its score.
CalculateLength ==
    /\ arg.fn = "_calculate_length_score"
    /\ out = NoOut
    /\ out' = [NoOut EXCEPT !.length_score = CalculateLengthScore(arg.text)]
    /\ UNCHANGED <<store, locks, pc, op, loc, res, pre, preEval, rec, arg>>

ScoreNext == EvaluatePrompt \/ CalculateLength

ScoreSpec == ScoreInit /\ [][ScoreNext]_vars

\* ------------------------------------------------------------------ claims
Callers == {p \in Procs : op[p] # NoOp}
Settled == \A p \in Callers : pc[p] = "done"
OwnerOf(pid) == (CHOOSE pr \in prompts : pr.id = pid).user

\* C1: after any sequence of completed, non-interleaved createPrompt,
\* updatePromptText, promoteVersion, deleteVersion and deletePrompt operations,
\* every existing prompt has at least one version and exactly one of its
\* versions is current.
C1_OneCurrentPerPrompt ==
    \A pr \in prompts :
        /\ VersionsOf(versions, pr.id) # {}
        /\ Cardinality(CurrentOf(versions, pr.id)) = 1

\* C1 witness: a deleteVersion of the current version has succeeded.
C1_Witness ==
    /\ pc[1] = "done" /\ op[1].kind = "delete" /\ res[1].code = 200
    /\ \E v \in pre[1] : v.id = op[1].vid /\ v.current

\* C2: an updatePromptText that creates a version and a concurrent
\* promoteToCurrent or deleteVersion on the same prompt leave, once both have
\* settled, exactly one current version.
C2_UpdateVsStructural ==
    \A p, q \in Procs :
        ( /\ Callers = {p, q} /\ p # q /\ Settled
          /\ op[p].kind = "update" /\ res[p].newv # 0
          /\ op[q].kind \in {"promote", "delete"} )
        => Cardinality(CurrentOf(versions, 1)) = 1

\* C3: while the only requests are promoteToCurrent calls on versions of one
\* prompt, with their steps interleaved, every committed state has exactly one
\* current version, and so has the state after they have settled.
C3_ConcurrentPromotes ==
    (\A p \in Callers : op[p].kind = "promote")
        => Cardinality(CurrentOf(versions, 1)) = 1

\* C3 witness: two promotions of different versions have both succeeded.
C3_Witness ==
    /\ Settled
    /\ \E p, q \in Callers :
          /\ op[p].kind = "promote" /\ op[q].kind = "promote"
          /\ op[p].vid # op[q].vid
          /\ res[p].code = 200 /\ res[q].code = 200

\* C4: two concurrent updatePromptText calls with different texts, both
\* different from the current text, leave exactly one current version and no
\* two versions with the same number.
C4_ConcurrentUpdates ==
    \A p, q \in Procs :
        ( /\ Callers = {p, q} /\ p # q /\ Settled
          /\ op[p].kind = "update" /\ op[q].kind = "update"
          /\ Strip(op[p].text) # Strip(op[q].text)
          /\ \A c \in CurrentOf(pre[p], 1) : c.text # Strip(op[p].text)
          /\ \A c \in CurrentOf(pre[q], 1) : c.text # Strip(op[q].text) )
        => /\ Cardinality(CurrentOf(versions, 1)) = 1
           /\ \A v, w \in VersionsOf(versions, 1) : v.number = w.number => v = w

\* C5: a version number once assigned in a prompt is never assigned to a
\* later-created version of that prompt; the numbers of successive creates
\* are strictly increasing.
C5_NumbersNeverReused ==
    \A a, b \in created :
        a.prompt = b.prompt /\ a.id < b.id => a.number < b.number

\* C6: while the only requests are deleteVersion calls on the versions of a
\* two-version prompt, at most one of them succeeds and the prompt keeps a
\* version.
C6_ConcurrentDeletes ==
    (\A p \in Callers : op[p].kind = "delete")
        => /\ VersionsOf(versions, 1) # {}
           /\ Cardinality({p \in Callers : res[p].code = 200}) <= 1

\* C6 witness: of two deletions of the two versions, one succeeded and the
\* other was refused by the only-version check.
C6_Witness ==
    /\ Settled
    /\ \E p, q \in Callers :
          /\ op[p].kind = "delete" /\ op[q].kind = "delete"
          /\ op[p].vid # op[q].vid
          /\ res[p].code = 200 /\ res[q].code = 400

\* C7: deleteVersion, called by the owner on a version whose prompt has
\* exactly one version, fails with InvalidOperation (400) and leaves the
\* versions as they were.
SoleVersionDelete ==
    /\ pc[1] = "done" /\ op[1].kind = "delete"
    /\ \E v \in pre[1] :
          /\ v.id = op[1].vid
          /\ Cardinality(VersionsOf(pre[1], v.prompt)) = 1
          /\ OwnerOf(v.prompt) = op[1].caller

C7_SoleVersionKept == SoleVersionDelete => res[1].code = 400 /\ versions = pre[1]

\* C7 witness: such a deleteVersion has returned.
C7_Witness == SoleVersionDelete

\* C8: every promoteToCurrent and deleteVersion call returns, with success
\* or a failure, whatever promoteToCurrent and deleteVersion calls run beside
\* it; no call waits forever for a row lock.
C8_EveryCallReturns ==
    <>[](\A p \in Procs : pc[p] \in {"idle", "done"})

\* C8 witness: a cycle of lock waits between two calls was broken, one of
\* them answering 500, and all calls have returned.
C8_Witness ==
    /\ Settled /\ Callers = Procs
    /\ \E p \in Procs : res[p].code = 500
    /\ \E p \in Procs : res[p].code = 200

\* C9: updatePromptText by the owner with a non-blank text that differs,
\* trimmed, from the current text adds exactly one version, numbered
\* max + 1, holding the trimmed text and current, clears the flag of the old
\* current version and reports the new version.
ChangingUpdate ==
    /\ pc[1] = "done" /\ op[1].kind = "update"
    /\ Strip(op[1].text) # <<>>
    /\ \E pr \in prompts : pr.id = op[1].pid /\ pr.user = op[1].caller
    /\ \A c \in CurrentOf(pre[1], op[1].pid) : c.text # Strip(op[1].text)

C9_UpdateAddsVersion ==
    ChangingUpdate =>
        /\ res[1].code = 200
        /\ res[1].newv \notin RowIds(pre[1])
        /\ versions =
              {[v EXCEPT !.current = IF v.prompt = op[1].pid THEN FALSE ELSE @] :
                  v \in pre[1]}
              \cup {[id |-> res[1].newv, prompt |-> op[1].pid,
                     number |-> MaxOf({v.number : v \in VersionsOf(pre[1], op[1].pid)}) + 1,
                     text |-> Strip(op[1].text), current |-> TRUE]}

\* C9 witness: such an update has returned, on a prompt whose highest
\* numbered version was not the current one.
C9_Witness ==
    /\ ChangingUpdate
    /\ \E c \in CurrentOf(pre[1], op[1].pid) :
          c.number < MaxOf({v.number : v \in VersionsOf(pre[1], op[1].pid)})

\* C10: updatePromptText whose text, trimmed, equals the current version's
\* text creates no version and leaves every version as it was (and, called by
\* the owner, succeeds).
UnchangedUpdate ==
    /\ pc[1] = "done" /\ op[1].kind = "update"
    /\ \E c \in CurrentOf(pre[1], op[1].pid) : c.text = Strip(op[1].text)

C10_SameTextNoVersion ==
    UnchangedUpdate =>
        /\ res[1].newv = 0
        /\ versions = pre[1]
        /\ OwnerOf(op[1].pid) = op[1].caller => res[1].code = 200

\* C10 witness: such an update by the owner has returned, its text given with
\* surrounding whitespace, after an earlier version was deleted.
C10_Witness ==
    /\ UnchangedUpdate
    /\ res[1].code = 200
    /\ op[1].text # Strip(op[1].text)
    /\ \E c \in created : c.prompt = op[1].pid /\ c.id \notin RowIds(versions)

\* The request thread 1 has answered.
Done(kind) == pc[1] = "done" /\ op[1].kind = kind
PromptIds == {pr.id : pr \in prompts}
EvalIds(rows) == {e.id : e \in rows}

\* The evaluations, among rows, of the versions that prompt pid had when the
\* request arrived.
PriorEvaluations(rows, pid) == {e \in rows : e.version \in RowIds(VersionsOf(pre[1], pid))}

\* C11: a successful deleteVersion removes exactly the target version; if the
\* target was current, the remaining version of its prompt with the highest
\* number becomes the current one, and otherwise no flag changes.
C11_DeleteRemovesTarget ==
    (Done("delete") /\ res[1].code = 200) =>
        LET target == CHOOSE v \in pre[1] : v.id = op[1].vid
            rest == pre[1] \ {target}
            top == MaxOf({v.number : v \in VersionsOf(rest, target.prompt)})
        IN /\ target \in pre[1]
           /\ versions =
                 IF target.current
                 THEN {[v EXCEPT !.current =
                           IF v.prompt = target.prompt THEN v.number = top ELSE @] :
                          v \in rest}
                 ELSE rest

\* C11 witness: the current version of a prompt with three versions was
\* deleted, and the version that became current was not current before.
C11_Witness ==
    /\ Done("delete") /\ res[1].code = 200
    /\ \E v \in pre[1] :
          /\ v.id = op[1].vid /\ v.current
          /\ Cardinality(VersionsOf(pre[1], v.prompt)) = 3
          /\ \A w \in VersionsOf(pre[1], v.prompt) : v.number <= w.number

\* C12: every successful evaluate adds exactly one new evaluation, of the
\* version it names, and leaves every evaluation stored before unchanged.
C12_EvaluateAddsOne ==
    (Done("evaluate") /\ res[1].code = 200) =>
        /\ versions = pre[1]
        /\ \E e \in evaluations :
              /\ e.id \notin EvalIds(preEval[1])
              /\ e.version = op[1].vid
              /\ evaluations = preEval[1] \cup {e}
              /\ Cardinality(evaluations) = Cardinality(preEval[1]) + 1

\* C12 witness: a version that already had two evaluations was evaluated again.
C12_Witness ==
    /\ Done("evaluate") /\ res[1].code = 200
    /\ Cardinality({e \in preEval[1] : e.version = op[1].vid}) = 2

\* C13: recommend returns as best an evaluation of the prompt with the
\* maximal final score; among those that tie on the score, the one evaluated
\* most recently; among those still tied, the one of the version with the
\* highest number.
C13_BestBreaksTies ==
    (Done("recommend") /\ res[1].code = 200) =>
        LET cands == PriorEvaluations(evaluations, op[1].pid)
            num(e) == (CHOOSE v \in versions : v.id = e.version).number
            before(a, b) ==
                \/ a.final_score < b.final_score
                \/ a.final_score = b.final_score /\ a.evaluated_at < b.evaluated_at
                \/ /\ a.final_score = b.final_score /\ a.evaluated_at = b.evaluated_at
                   /\ num(a) < num(b)
        IN /\ rec[1].best \in cands
           /\ \A e \in cands : ~before(rec[1].best, e)

\* C14: recommend on an existing prompt none of whose versions has an
\* evaluation fails with NotFound (404); once a version of the prompt has one,
\* the owner's recommend succeeds with an evaluation of the prompt.
C14_RecommendNeedsEvaluation ==
    (Done("recommend") /\ op[1].pid \in PromptIds) =>
        LET evs == PriorEvaluations(preEval[1], op[1].pid) IN
        /\ evs = {} => res[1].code = 404
        /\ (evs # {} /\ OwnerOf(op[1].pid) = op[1].caller) =>
              res[1].code = 200 /\ rec[1].best \in evs

\* C14 witness: the owner's recommend failed with 404 on a prompt without
\* evaluations while another prompt had one.
C14_Witness ==
    /\ Done("recommend") /\ op[1].pid \in PromptIds
    /\ OwnerOf(op[1].pid) = op[1].caller
    /\ res[1].code = 404
    /\ preEval[1] # {}

\* C15: a successful evaluateAllVersions adds exactly one evaluation to each
\* version of the prompt that had none and nothing to the others, so that
\* every version has one afterwards and a repeated call adds none.
C15_BulkEvaluatesUnevaluated ==
    (Done("evaluateAll") /\ res[1].code = 200) =>
        LET vs == VersionsOf(pre[1], op[1].pid)
            added == evaluations \ preEval[1]
        IN /\ versions = pre[1]
           /\ preEval[1] \subseteq evaluations
           /\ \A e \in added : e.id \notin EvalIds(preEval[1]) /\ e.version \in RowIds(vs)
           /\ \A v \in vs :
                 Cardinality({e \in added : e.version = v.id}) =
                    IF \E e \in preEval[1] : e.version = v.id THEN 0 ELSE 1
           /\ \A v \in vs : \E e \in evaluations : e.version = v.id

\* C15 witness: the bulk call ran on a prompt of which one version had an
\* evaluation and another had none.
C15_Witness ==
    /\ Done("evaluateAll") /\ res[1].code = 200
    /\ \E v, w \in VersionsOf(pre[1], op[1].pid) :
          /\ \E e \in preEval[1] : e.version = v.id
          /\ ~\E e \in preEval[1] : e.version = w.id

\* The prompt a request is about: the one it names, or the one of the version
\* it names (0: there is none).
TargetPrompt ==
    IF op[1].kind \in {"update", "evaluateAll", "recommend"}
    THEN (IF op[1].pid \in PromptIds THEN op[1].pid ELSE 0)
    ELSE IF op[1].kind \in {"promote", "delete", "evaluate"} /\ op[1].vid \in RowIds(pre[1])
    THEN (CHOOSE v \in pre[1] : v.id = op[1].vid).prompt
    ELSE 0

\* C16: update, promote, delete, evaluate, evaluate-all and recommend called
\* by someone who is not the owner of the prompt fail with Forbidden (403) and
\* change no version and no evaluation.
C16_NonOwnerForbidden ==
    (pc[1] = "done" /\ TargetPrompt # 0 /\ OwnerOf(TargetPrompt) # op[1].caller) =>
        /\ res[1].code = 403
        /\ versions = pre[1]
        /\ evaluations = preEval[1]

\* C17: promoteToCurrent, deleteVersion and evaluate called with the id of no
\* existing version fail with NotFound (404) and change no version and no
\* evaluation.
C17_MissingVersionNotFound ==
    (pc[1] = "done" /\ op[1].kind \in {"promote", "delete", "evaluate"}
                    /\ op[1].vid \notin RowIds(pre[1])) =>
        /\ res[1].code = 404
        /\ versions = pre[1]
        /\ evaluations = preEval[1]

\* C17 witness: evaluate was called with the id of a version that an earlier
\* deleteVersion removed from a prompt that still exists.
C17_Witness ==
    /\ Done("evaluate")
    /\ \E c \in created :
          c.id = op[1].vid /\ c.id \notin RowIds(pre[1]) /\ c.prompt \in PromptIds

\* C18: every evaluation refers to an existing version and every version to an
\* existing prompt, whatever versions and prompts have been deleted.
C18_NoOrphans ==
    /\ \A e \in evaluations : e.version \in RowIds(versions)
    /\ \A v \in versions : v.prompt \in PromptIds

\* C18 witness: a prompt was deleted whose versions had evaluations.
C18_Witness ==
    /\ Done("deletePrompt") /\ res[1].code = 200
    /\ PriorEvaluations(preEval[1], op[1].pid) # {}

\* C19: under the default weights, the clarity, relevance, length and final
\* scores that evaluate_prompt returns, which are the scores stored in an
\* evaluation, all lie in [0, 100], for every text, task type and domain.
C19_ScoresBounded ==
    (arg.fn = "evaluate_prompt" /\ out # NoOut) =>
        /\ out.clarity_score \in 0..Pts(100)
        /\ out.relevance_score \in 0..Pts(100)
        /\ out.length_score \in 0..Pts(100)
        /\ out.final_score \in 0..Pts(100)

\* C19 witness: a text has been scored whose clarity is clamped to 0 (its
\* vague words take more than 100 points) and whose relevance is clamped to 100.
C19_Witness ==
    /\ arg.fn = "evaluate_prompt" /\ out # NoOut
    /\ out.clarity_score = 0
    /\ out.relevance_score = Pts(100)
    /\ Pts(100) - Pts(8) * Cardinality(Found(VAGUE_KEYWORDS, Lower(arg.text))) < 0

\* The piecewise reference of the length score, with MIN = 5, OPT_MIN = 15,
\* OPT_MAX = 150 and MAX = 300, in thousandths of a point.
LengthReference(n) ==
    CASE n < 5 -> (n * 30000) \div 5
      [] 5 <= n /\ n < 15 -> 50000 + ((n - 5) * 30000) \div 10
      [] 15 <= n /\ n <= 150 -> 100000
      [] 150 < n /\ n <= 300 -> 100000 - ((n - 150) * 30000) \div 150
      [] n > 300 -> Max2(0, 70000 - ((n - 300) * 10000) \div 50)

\* C20: for every word count n the length score of a text of n words (the
\* text "x x ... x" of 2n - 1 characters) equals the piecewise reference;
\* n = 15 and n = 150 give exactly 100 and n = 300 gives 70.
C20_LengthPiecewise ==
    (arg.fn = "_calculate_length_score" /\ out # NoOut) =>
        \E n \in 0..MaxWords :
            /\ n = (Len(arg.text) + 1) \div 2
            /\ arg.text = Words(n)
            /\ out.length_score = LengthReference(n)
            /\ n \in {15, 150} => out.length_score = 100000
            /\ n = 300 => out.length_score = 70000

\* C20 witness: the length of a text of exactly 15 words has been scored.
C20_Witness ==
    /\ arg.fn = "_calculate_length_score" /\ out # NoOut
    /\ arg.text = Words(15)

\* The scenario's call: the text "Write a function." with task type
\* "generation" and domain "coding".
WriteAFunction ==
    <<"W", "r", "i", "t", "e", " ", "a", " ", "f", "u", "n", "c", "t", "i", "o", "n", ".">>
ScenarioScored ==
    /\ arg = [fn |-> "evaluate_prompt", text |-> WriteAFunction,
              task_type |-> PromptTaskType, domain |-> Coding]
    /\ out # NoOut

\* C21, as stated: for "Write a function." with task type generation and
\* domain coding the length score is 18 and the relevance score is 48 (50 + 8
\* for "write", - 10 for no coding keyword found).
C21_ScenarioRelevance48 ==
    ScenarioScored => out.length_score = Pts(18) /\ out.relevance_score = Pts(48)

\* C21, amended: for that call the length score is 18 and the relevance score
\* is 63: base 50, + 8 for the one generation indicator found ("write"), + 5
\* for the one keyword of the coding list found ("function"), and no context
\* or output-format bonus.
C21_ScenarioRelevance63 ==
    ScenarioScored =>
        LET prompt_lower == Lower(arg.text) IN
        /\ out.length_score = Pts(18)
        /\ out.relevance_score = Pts(63)
        /\ Matches(KeywordsOf(TASK_INDICATORS, arg.task_type), prompt_lower)
              = << <<"w", "r", "i", "t", "e">> >>
        /\ Matches(KeywordsOf(DOMAIN_KEYWORDS, arg.domain), prompt_lower)
              = << <<"f", "u", "n", "c", "t", "i", "o", "n">> >>
        /\ Found(context_words, prompt_lower) = {}
        /\ Found(format_words, prompt_lower) = {}

\* C21 witness: the scenario's call has returned.
C21_Witness == ScenarioScored

\* The engine has scored a text under hints that are both keys of their
\* tables, the text containing a keyword of the domain and an indicator of
\* the task type.
BothHintsMatched ==
    /\ arg.fn = "evaluate_prompt" /\ out # NoOut
    /\ Recognized(DOMAIN_KEYWORDS, arg.domain)
    /\ Recognized(TASK_INDICATORS, arg.task_type)
    /\ Matches(KeywordsOf(DOMAIN_KEYWORDS, arg.domain), Lower(arg.text)) # <<>>
    /\ Matches(KeywordsOf(TASK_INDICATORS, arg.task_type), Lower(arg.text)) # <<>>

\* C22: for a recognized domain and a recognized task type, a text that
\* contains a keyword of the domain's list and an indicator of the task's
\* list has a relevance score strictly above the base 50.
C22_MatchedHintsAboveBase == BothHintsMatched => out.relevance_score > Pts(50)

\* C22 witness: such a text has been scored, the hints given in another case
\* than the tables' keys and the keywords standing in capitals in the text.
C22_Witness ==
    /\ BothHintsMatched
    /\ arg.domain # Lower(arg.domain)
    /\ arg.task_type # Lower(arg.task_type)
    /\ out.relevance_score = Pts(63)

\* C23: quickEvaluate creates no version and no evaluation and changes no
\* stored record, whatever its input and whatever the store holds: the step
\* of a handler thread that serves a quickEvaluate request leaves every table
\* and every key counter as it was, and the answered request finds the
\* versions and evaluations that were there when it arrived.
C23_QuickEvaluateStoresNothing ==
    [][(op[1].kind = "quickEvaluate" /\ pc[1] # "done") =>
          /\ prompts' = prompts
          /\ versions' = versions
          /\ evaluations' = evaluations
          /\ nextPid' = nextPid /\ nextVid' = nextVid /\ nextEid' = nextEid
          /\ pc'[1] = "done"
          /\ versions' = pre[1] /\ evaluations' = preEval[1]]_vars

\* C23 witness: a quickEvaluate has answered with scores while the store held
\* evaluations, after a version with an evaluation was deleted.
C23_Witness ==
    /\ Done("quickEvaluate") /\ res[1].code = 200
    /\ out # NoOut
    /\ evaluations # {}
    /\ nextEid > Cardinality(evaluations) + 1

\* The prompt the request of thread p works on.
PromptOfOp(p) ==
    IF op[p].kind = "update" THEN op[p].pid
    ELSE (CHOOSE c \in created : c.id = op[p].vid).prompt

\* No other request on the prompt of p's request has arrived.
AloneOnPrompt(p) == \A q \in Callers \ {p} : PromptOfOp(q) # PromptOfOp(p)

\* The rows of a prompt after request r has run alone on its rows; newv is the
\* id of the version it creates.
AloneRows(r, rows, newv) ==
    CASE r.kind = "promote" -> {[v EXCEPT !.current = (v.id = r.vid)] : v \in rows}
      [] r.kind = "delete" ->
            LET target == CHOOSE v \in rows : v.id = r.vid
                rest == rows \ {target}
                top == MaxOf({v.number : v \in rest})
            IN IF target.current
               THEN {[v EXCEPT !.current = (v.number = top)] : v \in rest}
               ELSE rest
      [] r.kind = "update" ->
            IF \E c \in rows : c.current /\ c.text = Strip(r.text) THEN rows
            ELSE {[v EXCEPT !.current = FALSE] : v \in rows}
                 \cup {[id |-> newv, prompt |-> r.pid,
                        number |-> MaxOf({v.number : v \in rows}) + 1,
                        text |-> Strip(r.text), current |-> TRUE]}

\* C24: operations on different prompts never contend.  A promoteToCurrent,
\* deleteVersion or updatePromptText never waits for a row lock held by a
\* request on another prompt, and when no other request works on its prompt
\* it succeeds and leaves the prompt's versions as it would if it ran alone,
\* whatever requests run beside it on other prompts.
C24_DifferentPromptsNeverContend ==
    \A p \in Callers :
        /\ Blocker(p) # 0 => PromptOfOp(Blocker(p)) = PromptOfOp(p)
        /\ (pc[p] = "done" /\ AloneOnPrompt(p)) =>
              /\ res[p].code = 200
              /\ VersionsOf(versions, PromptOfOp(p)) =
                    AloneRows(op[p], VersionsOf(pre[p], PromptOfOp(p)), res[p].newv)

\* C24 witness: an update that created a version of one prompt and a deletion
\* of the current version of the other prompt, both arrived before either
\* committed, have both returned.
C24_Witness ==
    \E p, q \in Callers :
        /\ pc[p] = "done" /\ pc[q] = "done"
        /\ PromptOfOp(p) # PromptOfOp(q)
        /\ op[p].kind = "update" /\ res[p].newv # 0
        /\ op[q].kind = "delete" /\ res[q].code = 200
        /\ \E v \in pre[q] : v.id = op[q].vid /\ v.current
        /\ pre[p] = pre[q]

\* C25: no operation changes the text or the number of a version that
\* exists: every step keeps, for each version it does not delete, the text,
\* the number and the prompt the version had before the step.
C25_TextAndNumberKept ==
    [][\A v \in versions : \A w \in versions' :
          w.id = v.id => w.text = v.text /\ w.number = v.number /\ w.prompt = v.prompt]_vars

\* C25 witness: a deleteVersion has made current a version that an earlier
\* update had taken the flag from.
C25_Witness ==
    /\ Done("delete") /\ res[1].code = 200
    /\ \E v \in versions, w \in pre[1] :
          /\ v.id = w.id /\ v.current /\ ~w.current
          /\ \E x \in pre[1] : x.prompt = v.prompt /\ x.id > v.id

\* Thread p is inside a structural operation: it has read a version row of
\* the prompt for it and its transaction has neither committed nor rolled back.
Working(p) ==
    \/ pc[p] \in {"sc_scan", "sc_acquire"}
    \/ pc[p] \in {"dv_scan", "dv_acquire", "dv_delete", "dv_commit"}
    \/ pc[p] \in {"up_flush", "up_latest"}
    \/ pc[p] = "up_commit" /\ loc[p].insert

\* C26: every structural operation on a prompt's versions holds the
\* mutual-exclusion scope of the prompt from before its first read of a
\* version row until its transaction commits or rolls back.  The only
\* exclusion the handlers have is the row locks on the prompt's versions, so
\* an operation that holds the scope holds at least one of them.
C26_ScopeHeldWhileWorking == \A p \in Procs : Working(p) => Held(p) # {}

\* C27: promoteToCurrent of an existing version by its owner, current already
\* or not, succeeds; afterwards the version is the only current one of its
\* prompt, the versions are the same rows with the same numbers and texts,
\* the versions of other prompts are as they were, and promoting the version
\* that is current leaves the state as it was.
C27_PromoteSetsOnlyTarget ==
    (Done("promote") /\ op[1].vid \in RowIds(pre[1])) =>
        LET target == CHOOSE v \in pre[1] : v.id = op[1].vid IN
        /\ OwnerOf(target.prompt) = op[1].caller => res[1].code = 200
        /\ res[1].code = 200 =>
              /\ versions =
                    {[v EXCEPT !.current =
                         IF v.prompt = target.prompt THEN v.id = target.id ELSE @] :
                        v \in pre[1]}
              /\ CurrentOf(versions, target.prompt) = {[target EXCEPT !.current = TRUE]}
              /\ target.current => versions = pre[1]

\* C27 witness: the current version of a prompt with two versions was
\* promoted again while another prompt existed.
C27_Witness ==
    /\ Done("promote") /\ res[1].code = 200
    /\ \E v \in pre[1] :
          /\ v.id = op[1].vid /\ v.current
          /\ Cardinality(VersionsOf(pre[1], v.prompt)) = 2
          /\ \E w \in pre[1] : w.prompt # v.prompt

\* Thread 1 has answered a structural request with a failure.
Failed ==
    /\ pc[1] = "done"
    /\ op[1].kind \in {"update", "promote", "delete"}
    /\ res[1].code \notin {200, 201}

\* C28: when a structural operation fails at any statement before its commit,
\* the committed versions are exactly those of before the operation (no flag
\* flipped, no row inserted or deleted), no lock is left behind, and the
\* prompt has exactly one current version.
C28_FailureLeavesNothing ==
    Failed =>
        /\ versions = pre[1]
        /\ locks = {}
        /\ loc[1] = NoLoc
        /\ \A pr \in prompts : Cardinality(CurrentOf(versions, pr.id)) = 1

\* C28 witness: an operation has failed on a prompt from which an earlier
\* deleteVersion had removed a version and to which an update had added one.
C28_Witness ==
    /\ Failed /\ res[1].code = 500
    /\ Cardinality(created) = 3
    /\ Cardinality(versions) = 2

\* C29: the alternatives that recommend returns are at most 5, come in order
\* of non-increasing final score, score no higher than the best, and are
\* evaluations of versions other than the version of the best, also when that
\* version has been evaluated more than once.
C29_AlternativesOtherVersions ==
    (Done("recommend") /\ res[1].code = 200) =>
        LET alts == rec[1].alternatives IN
        /\ Len(alts) <= 5
        /\ \A i, j \in 1..Len(alts) : i < j => alts[i].final_score >= alts[j].final_score
        /\ \A i \in 1..Len(alts) :
              /\ alts[i].final_score <= rec[1].best.final_score
              /\ alts[i].version # rec[1].best.version

\* The hint as the engine takes it when it is no key of the table: not supplied.
KnownOrNone(table, hint) == IF Recognized(table, hint) THEN hint ELSE <<>>

\* C30: a hint that is supplied but is no key of its keyword table is skipped
\* silently: the relevance score and the relevance notes are those of the same
\* call without that hint, and with no recognized hint the relevance score is
\* 50 plus 10 for a context word plus 10 for an output-format word.
C30_UnknownHintSkipped ==
    (arg.fn = "evaluate_prompt" /\ out # NoOut) =>
        LET task_type == KnownOrNone(TASK_INDICATORS, arg.task_type)
            domain == KnownOrNone(DOMAIN_KEYWORDS, arg.domain)
            prompt_lower == Lower(arg.text)
        IN /\ out.relevance_score = Round2(CalculateRelevanceScore(arg.text, task_type, domain))
           /\ out.relevance_notes = RelevanceNotes(arg.text, task_type, domain)
           /\ (task_type = <<>> /\ domain = <<>>) =>
                out.relevance_score =
                    Pts(50)
                    + (IF \E w \in context_words : Contains(prompt_lower, w) THEN Pts(10) ELSE 0)
                    + (IF \E w \in format_words : Contains(prompt_lower, w) THEN Pts(10) ELSE 0)

\* Both hints are supplied, neither is a key of its table, and the text has a
\* context word and an output-format word.
C30_Witness ==
    /\ arg.fn = "evaluate_prompt" /\ out # NoOut
    /\ arg.task_type # <<>> /\ ~Recognized(TASK_INDICATORS, arg.task_type)
    /\ arg.domain # <<>> /\ ~Recognized(DOMAIN_KEYWORDS, arg.domain)
    /\ out.relevance_score = Pts(70)
    /\ Len(out.relevance_notes) = 1

====
